---- MODULE Spec2Model ----
(***************************************************************************)
(* Skytap management console: the API client (src/lib/skytap-api.ts), the  *)
(* page handlers that orchestrate its calls, the training wizard and the   *)
(* development proxy (vite.config.ts).                                     *)
(*                                                                         *)
(* An async handler is modelled as a run: `op` names the handler, `pc` its *)
(* position (the code between two awaits is one action), `loc` its local   *)
(* variables, `outstanding` the number of requests of the run that were    *)
(* sent and have not been answered, `log` the network trace of the run     *)
(* (requests, responses and setTimeout pauses, in order).                  *)
(***************************************************************************)
EXTENDS Integers, Sequences, FiniteSets, TLC

VARIABLES op, pc, loc, outstanding, log,
          mounted, sessionStorage, projectId, projectValid, isValidating,
          error, currentStep, steps, inFlight, verifiedId,
          env, forwarded

runVars    == <<op, pc, loc, outstanding, log>>
wizardVars == <<mounted, sessionStorage, projectId, projectValid, isValidating,
                error, currentStep, steps, inFlight, verifiedId>>
wizardRest == <<mounted, sessionStorage, projectId, projectValid, isValidating,
                error, currentStep, inFlight, verifiedId>>
proxyVars  == <<env, forwarded>>
vars       == <<runVars, wizardVars, proxyVars>>

----------------------------------------------------------------------------
(* Bounds *)
MaxIds == 3
MaxCopies == 3
MaxConfigs == 2
MaxBatchSize == 3
MaxFetched == 5
MaxPollAttempts == 3
MaxIdLen == 2
MaxRuns == 2
MaxCredLen == 2
MaxForwarded == 2
MaxCount == 205
MaxServerUsers == 205
MaxTyped == 3
MaxTicks == 2
MaxProjects == 2
MaxIps == 2
MaxDay == 3

(* Generic helpers *)
RECURSIVE TrimLeft(_)
TrimLeft(s) == IF s # <<>> /\ s[1] = " " THEN TrimLeft(Tail(s)) ELSE s

RECURSIVE TrimRight(_)
TrimRight(s) ==
  IF s # <<>> /\ s[Len(s)] = " " THEN TrimRight(SubSeq(s, 1, Len(s) - 1)) ELSE s

(* String.prototype.trim on a string given as its sequence of characters  *)
Trim(s) == TrimRight(TrimLeft(s))

Ids == {"a", "b"}

SeqsUpTo(S, n) == UNION {[1..k -> S] : k \in 0..n}

Null == "null"

(* sessionStorage.getItem returns null when nothing is stored; a non-blank *)
(* ID is all the page ever stores, so the empty sequence stands for null   *)
NoItem == <<>>

(* A value thrown by a request: makeRequest throws Error objects; the      *)
(* catch blocks also handle a thrown non-Error.                            *)
Thrown == {[isError |-> TRUE, message |-> "API request failed: 500"],
           [isError |-> TRUE, message |-> "Failed to fetch"],
           [isError |-> FALSE, message |-> Null]}

(* error instanceof Error ? error.message : fallback *)
ErrorMessage(e, fallback) == IF e.isError THEN e.message ELSE fallback

Request(api, arg) == [type |-> "request", api |-> api, arg |-> arg]
Response(ok)      == [type |-> "response", ok |-> ok]
Pause(ms)         == [type |-> "pause", ms |-> ms]

----------------------------------------------------------------------------
(* Idle values of the parts of the state a specification does not use *)
RunIdle ==
  /\ op = "none" /\ pc = "idle" /\ loc = [x |-> 0] /\ outstanding = 0 /\ log = <<>>

WizardIdle ==
  /\ mounted = FALSE /\ sessionStorage = NoItem /\ projectId = <<>>
  /\ projectValid = FALSE /\ isValidating = FALSE /\ error = Null
  /\ currentStep = 0 /\ steps = <<>> /\ inFlight = <<>> /\ verifiedId = NoItem

ProxyIdle ==
  /\ env = [SKYTAP_USER |-> [defined |-> FALSE, value |-> <<>>],
            SKYTAP_TOKEN |-> [defined |-> FALSE, value |-> <<>>]]
  /\ forwarded = <<>>

----------------------------------------------------------------------------
(* SkytapAPI.deleteProjects / SkytapAPI.releaseIPAddresses                 *)

BatchApi(o) == IF o = "deleteProjects" THEN "deleteProject" ELSE "releaseIPAddress"

BatchInit(o) ==
  /\ op = o
  /\ pc = "loop"
  /\ \E ids \in SeqsUpTo(Ids, MaxIds) :
       loc = [ids |-> ids, i |-> 1,
              results |-> [success |-> <<>>, failed |-> <<>>]]
  /\ outstanding = 0
  /\ log = <<>>

(* for (const id of ids) { try { await this.deleteProject(id) *)
BatchRequest(o) ==
  /\ op = o /\ pc = "loop" /\ loc.i <= Len(loc.ids)
  /\ log' = Append(log, Request(BatchApi(o), loc.ids[loc.i]))
  /\ outstanding' = outstanding + 1
  /\ pc' = "await"
  /\ UNCHANGED <<op, loc>>

(* results.success.push(id) *)
BatchSuccess(o) ==
  /\ op = o /\ pc = "await"
  /\ log' = Append(log, Response(TRUE))
  /\ outstanding' = outstanding - 1
  /\ loc' = [loc EXCEPT !.results.success = Append(@, loc.ids[loc.i]),
                        !.i = @ + 1]
  /\ pc' = "loop"
  /\ UNCHANGED op

(* Mutants of the catch block: one forgets to record the failure, one     *)
(* retries the same ID.                                                    *)
BatchCatchBody_drop(o, e) ==
  /\ loc' = [loc EXCEPT !.i = @ + 1]
  /\ pc' = "loop"

BatchCatchBody_retry(o, e) ==
  /\ loc' = IF Len(log) < 2 * Len(loc.ids) + 2
            THEN [loc EXCEPT !.results.failed =
                               Append(@, [id |-> loc.ids[loc.i],
                                          error |-> ErrorMessage(e, "Unknown error")])]
            ELSE [loc EXCEPT !.i = @ + 1]
  /\ pc' = "loop"

(* catch (error) { results.failed.push({ id, error: errorMessage }) } *)
BatchCatchBody(o, e) ==
  /\ loc' = [loc EXCEPT !.results.failed =
                          Append(@, [id |-> loc.ids[loc.i],
                                     error |-> ErrorMessage(e, "Unknown error")]),
                        !.i = @ + 1]
  /\ pc' = "loop"

BatchCatch(o) ==
  /\ op = o /\ pc = "await"
  /\ log' = Append(log, Response(FALSE))
  /\ outstanding' = outstanding - 1
  /\ \E e \in Thrown : BatchCatchBody(o, e)
  /\ UNCHANGED op

(* return results *)
BatchReturn(o) ==
  /\ op = o /\ pc = "loop" /\ loc.i > Len(loc.ids)
  /\ pc' = "returned"
  /\ UNCHANGED <<op, loc, outstanding, log>>

deleteProjects_request == BatchRequest("deleteProjects") /\ UNCHANGED <<wizardVars, proxyVars>>
deleteProjects_success == BatchSuccess("deleteProjects") /\ UNCHANGED <<wizardVars, proxyVars>>
deleteProjects_catch   == BatchCatch("deleteProjects") /\ UNCHANGED <<wizardVars, proxyVars>>
deleteProjects_return  == BatchReturn("deleteProjects") /\ UNCHANGED <<wizardVars, proxyVars>>

releaseIPAddresses_request == BatchRequest("releaseIPAddresses") /\ UNCHANGED <<wizardVars, proxyVars>>
releaseIPAddresses_success == BatchSuccess("releaseIPAddresses") /\ UNCHANGED <<wizardVars, proxyVars>>
releaseIPAddresses_catch   == BatchCatch("releaseIPAddresses") /\ UNCHANGED <<wizardVars, proxyVars>>
releaseIPAddresses_return  == BatchReturn("releaseIPAddresses") /\ UNCHANGED <<wizardVars, proxyVars>>

BatchOps == {"deleteProjects", "releaseIPAddresses"}

InitBatch ==
  /\ \E o \in BatchOps : BatchInit(o)
  /\ WizardIdle /\ ProxyIdle

NextBatch ==
  \/ deleteProjects_request
  \/ deleteProjects_success
  \/ deleteProjects_catch
  \/ deleteProjects_return
  \/ releaseIPAddresses_request
  \/ releaseIPAddresses_success
  \/ releaseIPAddresses_catch
  \/ releaseIPAddresses_return

SpecBatch == InitBatch /\ [][NextBatch]_vars

----------------------------------------------------------------------------
(* Training wizard: the steps and the completion callback                   *)
(* (pages/TrainingEnvironments.tsx)                                         *)

StepIds == <<"copy-environment", "create-schedulers", "power-options", "lookup-urls">>

initialSteps == [k \in 1..Len(StepIds) |-> [id |-> StepIds[k], completed |-> FALSE]]

(* steps.map(step => step.id === stepId ? { ...step, completed: true } : step) *)
MarkCompleted(st, stepId) ==
  [k \in 1..Len(st) |-> IF st[k].id = stepId
                         THEN [st[k] EXCEPT !.completed = TRUE]
                         ELSE st[k]]

(* handleStepComplete: the value of `steps` after the callback.  Every     *)
(* caller passes an object, so `results &&` is true.                       *)
handleStepComplete(st, stepId, results) ==
  IF results.success # FALSE THEN MarkCompleted(st, stepId) ELSE st

(* The wizard as it is while the step with 0-based index k is shown: the   *)
(* project was validated and every earlier step was completed.             *)
WizardAtStep(k) ==
  /\ mounted = TRUE /\ sessionStorage = <<"a">> /\ projectId = <<"a">>
  /\ projectValid = TRUE /\ isValidating = FALSE /\ error = Null
  /\ currentStep = k
  /\ steps = [j \in 1..Len(StepIds) |-> [id |-> StepIds[j], completed |-> j <= k]]
  /\ inFlight = [j \in 1..Len(StepIds) |-> 0] /\ verifiedId = <<"a">>

(* Mutant: the Next Step button is enabled whether or not the current step *)
(* is completed.                                                           *)
NextEnabled_always ==
  /\ projectValid
  /\ currentStep < Len(steps) - 1

(* the Next Step button of StepNavigationButtons is rendered and enabled   *)
NextEnabled ==
  /\ projectValid
  /\ currentStep < Len(steps) - 1
  /\ steps[currentStep + 1].completed

(* the Previous button is rendered and enabled *)
PreviousEnabled == projectValid /\ currentStep # 0

(* StepNavigation: the card of the step with 0-based index `index` is      *)
(* rendered and not disabled                                               *)
StepCardEnabled(index) ==
  /\ projectValid
  /\ index + 1 <= Len(steps)
  /\ ~(index > 0 /\ ~steps[index].completed /\ index # currentStep)

(* Project IDs as typed: sequences of characters *)
IdChars == {" ", "a"}
ProjectIdInputs == SeqsUpTo(IdChars, MaxIdLen)

(* what an earlier visit of the page can have left in sessionStorage:      *)
(* nothing, or a trimmed non-blank project ID                              *)
StoredIds == {NoItem} \cup {Trim(v) : v \in {w \in ProjectIdInputs : Trim(w) # <<>>}}

(* the runs of step handlers that were started and have not ended, as a    *)
(* count per step                                                          *)
NoRuns == [k \in 1..Len(StepIds) |-> 0]
RunCount(f) == f[1] + f[2] + f[3] + f[4]

WizardInit ==
  /\ mounted = FALSE
  /\ sessionStorage \in StoredIds
  /\ projectId = <<>>
  /\ projectValid = FALSE /\ isValidating = FALSE /\ error = Null
  /\ currentStep = 0 /\ steps = <<>>
  /\ inFlight = NoRuns
  /\ verifiedId = NoItem

(* the three mount effects: setSteps(initialSteps); a saved project ID is  *)
(* restored and projectValid set to true; the project ID is stored         *)
wizard_mount ==
  /\ ~mounted
  /\ mounted' = TRUE
  /\ steps' = initialSteps
  /\ IF sessionStorage # NoItem
       THEN projectId' = sessionStorage /\ projectValid' = TRUE
       ELSE UNCHANGED <<projectId, projectValid>>
  /\ UNCHANGED <<sessionStorage, isValidating, error, currentStep, inFlight,
                 verifiedId, runVars, proxyVars>>

(* onProjectIdChange, then the effect that stores a non-blank ID           *)
onProjectIdChange ==
  /\ mounted /\ ~isValidating
  /\ \E value \in ProjectIdInputs :
       /\ value # projectId
       /\ projectId' = value
       /\ sessionStorage' = IF Trim(value) # <<>> THEN Trim(value) ELSE sessionStorage
  /\ projectValid' = FALSE
  /\ error' = Null
  /\ verifiedId' = NoItem
  /\ UNCHANGED <<mounted, isValidating, currentStep, steps, inFlight, runVars, proxyVars>>

(* validateProject up to its await (the button is disabled for a blank ID  *)
(* and while validating)                                                   *)
validateProject ==
  /\ mounted /\ ~isValidating /\ Trim(projectId) # <<>>
  /\ isValidating' = TRUE
  /\ error' = Null
  /\ UNCHANGED <<mounted, sessionStorage, projectId, projectValid, currentStep,
                 steps, inFlight, verifiedId, runVars, proxyVars>>

(* getProjectConfigurations succeeded: setProjectValid(true) *)
validateProject_success ==
  /\ isValidating
  /\ projectValid' = TRUE
  /\ verifiedId' = Trim(projectId)
  /\ isValidating' = FALSE
  /\ UNCHANGED <<mounted, sessionStorage, projectId, error, currentStep, steps,
                 inFlight, runVars, proxyVars>>

(* catch: setError, setProjectValid(false) *)
validateProject_catch ==
  /\ isValidating
  /\ projectValid' = FALSE
  /\ error' = "Invalid project ID"
  /\ isValidating' = FALSE
  /\ UNCHANGED <<mounted, sessionStorage, projectId, currentStep, steps,
                 inFlight, verifiedId, runVars, proxyVars>>

handleNextStep ==
  /\ mounted /\ NextEnabled
  /\ currentStep' = IF currentStep < Len(steps) - 1 THEN currentStep + 1 ELSE currentStep
  /\ UNCHANGED <<mounted, sessionStorage, projectId, projectValid, isValidating,
                 error, steps, inFlight, verifiedId, runVars, proxyVars>>

handlePreviousStep ==
  /\ mounted /\ PreviousEnabled
  /\ currentStep' = IF currentStep > 0 THEN currentStep - 1 ELSE currentStep
  /\ UNCHANGED <<mounted, sessionStorage, projectId, projectValid, isValidating,
                 error, steps, inFlight, verifiedId, runVars, proxyVars>>

(* a click on an enabled step card *)
handleStepClick ==
  /\ mounted
  /\ \E stepIndex \in 0..(Len(steps) - 1) :
       /\ StepCardEnabled(stepIndex)
       /\ stepIndex # currentStep
       /\ currentStep' = IF stepIndex <= currentStep
                            \/ (stepIndex >= 1 /\ steps[stepIndex].completed)
                         THEN stepIndex ELSE currentStep
  /\ UNCHANGED <<mounted, sessionStorage, projectId, projectValid, isValidating,
                 error, steps, inFlight, verifiedId, runVars, proxyVars>>

(* the user starts a handler of the step component that StepContent shows; *)
(* its onComplete is bound to the id of the step shown                     *)
step_run_start ==
  /\ mounted /\ projectValid
  /\ RunCount(inFlight) < MaxRuns
  /\ inFlight' = [inFlight EXCEPT ![currentStep + 1] = @ + 1]
  /\ UNCHANGED <<mounted, sessionStorage, projectId, projectValid, isValidating,
                 error, currentStep, steps, verifiedId, runVars, proxyVars>>

(* the success values the handlers of step k pass to onComplete: the copy  *)
(* handler only ever reports success                                       *)
StepPayloads(k) == IF k = 1 THEN {TRUE} ELSE BOOLEAN

(* a run of a step handler goes on, wherever the wizard is by then: it     *)
(* calls onComplete (and may call it again: handleDisableAutoshutdown does *)
(* so through handleCheckStatus) or it returns without calling it (failed  *)
(* validation, no configurations in the project)                           *)
step_run_callback ==
  /\ mounted
  /\ \E k \in 1..Len(StepIds), ends \in BOOLEAN, called \in BOOLEAN :
       /\ inFlight[k] > 0
       /\ called \/ ends
       /\ IF called
            THEN \E success \in StepPayloads(k) :
                   steps' = handleStepComplete(steps, StepIds[k], [success |-> success])
            ELSE steps' = steps
       /\ inFlight' = IF ends THEN [inFlight EXCEPT ![k] = @ - 1] ELSE inFlight
  /\ UNCHANGED <<mounted, sessionStorage, projectId, projectValid, isValidating,
                 error, currentStep, verifiedId, runVars, proxyVars>>

InitWizard == WizardInit /\ RunIdle /\ ProxyIdle

NextWizard ==
  \/ wizard_mount
  \/ onProjectIdChange
  \/ validateProject
  \/ validateProject_success
  \/ validateProject_catch
  \/ handleNextStep
  \/ handlePreviousStep
  \/ handleStepClick
  \/ step_run_start
  \/ step_run_callback

SpecWizard == InitWizard /\ [][NextWizard]_vars

----------------------------------------------------------------------------
(* CopyEnvironment.handleCopyEnvironment (pages/training/CopyEnvironment)  *)

CopyPauseMs == 10000

Progress(currentStepL, totalSteps) == [num |-> currentStepL * 100, den |-> totalSteps]

CopyInit ==
  /\ op = "copy"
  /\ pc = "start"
  /\ \E n \in 1..MaxCopies, formOk \in BOOLEAN :
       loc = [formOk |-> formOk, desiredCopies |-> n, i |-> 0,
              copyIds |-> <<>>, copyResults |-> <<>>,
              totalSteps |-> n * 3, currentStep |-> 0,
              progress |-> Progress(0, 1), results |-> <<>>,
              error |-> Null, onCompleteArg |-> Null]
  /\ outstanding = 0
  /\ log = <<>>

(* Validation of the form fields, then the reset before the try block *)
copy_start ==
  /\ op = "copy" /\ pc = "start"
  /\ IF loc.formOk
       THEN pc' = "create" /\ loc' = loc
       ELSE pc' = "done" /\ loc' = [loc EXCEPT !.error = "required"]
  /\ UNCHANGED <<op, outstanding, log, wizardVars, proxyVars>>

(* for (let i = 0; i < desiredCopies; i++) { await skytapAPI.copyEnvironment *)
copy_create_request ==
  /\ op = "copy" /\ pc = "create" /\ loc.i < loc.desiredCopies
  /\ log' = Append(log, Request("copyEnvironment", "master"))
  /\ outstanding' = outstanding + 1
  /\ pc' = "await_create"
  /\ UNCHANGED <<op, loc, wizardVars, proxyVars>>

(* copyIds.push(copyId); currentStep++; setProgress; then the 10 s pause   *)
(* unless this was the last copy                                           *)
copy_create_success ==
  /\ op = "copy" /\ pc = "await_create"
  /\ outstanding' = outstanding - 1
  /\ LET id == Len(loc.copyIds) + 1 + 100
         l1 == [loc EXCEPT !.copyIds = Append(@, id),
                           !.currentStep = @ + 1,
                           !.progress = Progress(loc.currentStep + 1, loc.totalSteps)]
     IN IF loc.i < loc.desiredCopies - 1
          THEN /\ log' = log \o <<Response(TRUE), Pause(CopyPauseMs)>>
               /\ loc' = l1
               /\ pc' = "pause"
          ELSE /\ log' = Append(log, Response(TRUE))
               /\ loc' = [l1 EXCEPT !.i = @ + 1]
               /\ pc' = "create"
  /\ UNCHANGED <<op, wizardVars, proxyVars>>

(* the setTimeout of 10000 ms fires *)
copy_pause_elapsed ==
  /\ op = "copy" /\ pc = "pause"
  /\ loc' = [loc EXCEPT !.i = @ + 1]
  /\ pc' = "create"
  /\ UNCHANGED <<op, outstanding, log, wizardVars, proxyVars>>

(* catch (error) { addLog(`Failed to create copy ...`) } *)
copy_create_catch ==
  /\ op = "copy" /\ pc = "await_create"
  /\ outstanding' = outstanding - 1
  /\ log' = Append(log, Response(FALSE))
  /\ loc' = [loc EXCEPT !.i = @ + 1]
  /\ pc' = "create"
  /\ UNCHANGED <<op, wizardVars, proxyVars>>

(* the creation loop ends; the rename loop starts *)
copy_create_done ==
  /\ op = "copy" /\ pc = "create" /\ loc.i >= loc.desiredCopies
  /\ loc' = [loc EXCEPT !.i = 0]
  /\ pc' = "name"
  /\ UNCHANGED <<op, outstanding, log, wizardVars, proxyVars>>

(* Mutant: the number is not padded.                                       *)
CopyName_unpadded(i) == <<"prefix", " - ", i + 1>>

(* `${namePrefix} - ${String(i + 1).padStart(2, '0')}`: the two digits     *)
CopyName(i) ==
  IF i + 1 < 10 THEN <<"prefix", " - ", 0, i + 1>>
  ELSE <<"prefix", " - ", (i + 1) \div 10, (i + 1) % 10>>

(* for (let i = 0; i < copyIds.length; i++) { await updateEnvironmentName  *)
copy_name_request ==
  /\ op = "copy" /\ pc = "name" /\ loc.i < Len(loc.copyIds)
  /\ log' = Append(log, Request("updateEnvironmentName",
                                <<loc.copyIds[loc.i + 1], CopyName(loc.i)>>))
  /\ outstanding' = outstanding + 1
  /\ pc' = "await_name"
  /\ UNCHANGED <<op, loc, wizardVars, proxyVars>>

copy_name_success ==
  /\ op = "copy" /\ pc = "await_name"
  /\ outstanding' = outstanding - 1
  /\ log' = Append(log, Response(TRUE))
  /\ loc' = [loc EXCEPT !.copyResults =
                          Append(@, [copyId |-> loc.copyIds[loc.i + 1],
                                     name |-> CopyName(loc.i)]),
                        !.currentStep = @ + 1,
                        !.progress = Progress(loc.currentStep + 1, loc.totalSteps),
                        !.i = @ + 1]
  /\ pc' = "name"
  /\ UNCHANGED <<op, wizardVars, proxyVars>>

copy_name_catch ==
  /\ op = "copy" /\ pc = "await_name"
  /\ outstanding' = outstanding - 1
  /\ log' = Append(log, Response(FALSE))
  /\ loc' = [loc EXCEPT !.i = @ + 1]
  /\ pc' = "name"
  /\ UNCHANGED <<op, wizardVars, proxyVars>>

copy_name_done ==
  /\ op = "copy" /\ pc = "name" /\ loc.i >= Len(loc.copyIds)
  /\ loc' = [loc EXCEPT !.i = 0]
  /\ pc' = "project"
  /\ UNCHANGED <<op, outstanding, log, wizardVars, proxyVars>>

(* for (let i = 0; i < copyIds.length; i++) { await addEnvironmentToProject *)
copy_project_request ==
  /\ op = "copy" /\ pc = "project" /\ loc.i < Len(loc.copyIds)
  /\ log' = Append(log, Request("addEnvironmentToProject", loc.copyIds[loc.i + 1]))
  /\ outstanding' = outstanding + 1
  /\ pc' = "await_project"
  /\ UNCHANGED <<op, loc, wizardVars, proxyVars>>

copy_project_success ==
  /\ op = "copy" /\ pc = "await_project"
  /\ outstanding' = outstanding - 1
  /\ log' = Append(log, Response(TRUE))
  /\ loc' = [loc EXCEPT !.currentStep = @ + 1,
                        !.progress = Progress(loc.currentStep + 1, loc.totalSteps),
                        !.i = @ + 1]
  /\ pc' = "project"
  /\ UNCHANGED <<op, wizardVars, proxyVars>>

copy_project_catch ==
  /\ op = "copy" /\ pc = "await_project"
  /\ outstanding' = outstanding - 1
  /\ log' = Append(log, Response(FALSE))
  /\ loc' = [loc EXCEPT !.i = @ + 1]
  /\ pc' = "project"
  /\ UNCHANGED <<op, wizardVars, proxyVars>>

(* The payload of the onComplete call at the end of the try block *)
CopyCompletePayload(copyResults) ==
  [success |-> TRUE, results |-> copyResults, totalCopies |-> Len(copyResults)]

(* setResults(copyResults); setProgress(100); onComplete({ success: true, *)
(* ... }), which is the wizard's handleStepComplete for this step.  The    *)
(* outer catch is not reachable: every await sits in an inner try.         *)
copy_complete ==
  /\ op = "copy" /\ pc = "project" /\ loc.i >= Len(loc.copyIds)
  /\ loc' = [loc EXCEPT !.results = loc.copyResults,
                        !.progress = Progress(1, 1),
                        !.onCompleteArg = CopyCompletePayload(loc.copyResults)]
  /\ steps' = handleStepComplete(steps, StepIds[1], CopyCompletePayload(loc.copyResults))
  /\ pc' = "done"
  /\ UNCHANGED <<op, outstanding, log, wizardRest, proxyVars>>

InitCopy == CopyInit /\ WizardAtStep(0) /\ ProxyIdle

NextCopy ==
  \/ copy_start
  \/ copy_create_request
  \/ copy_create_success
  \/ copy_pause_elapsed
  \/ copy_create_catch
  \/ copy_create_done
  \/ copy_name_request
  \/ copy_name_success
  \/ copy_name_catch
  \/ copy_name_done
  \/ copy_project_request
  \/ copy_project_success
  \/ copy_project_catch
  \/ copy_complete

SpecCopy == InitCopy /\ [][NextCopy]_vars

----------------------------------------------------------------------------
(* PowerOptions.handleCheckStatus / handleDisableAutoshutdown              *)
(* (pages/training/PowerOptions.tsx)                                       *)

(* the configurations a project returns: IDs 1..n in the returned order    *)
Configurations(n) == [k \in 1..n |-> k]

PowerOps == {"checkStatus", "disableAutoshutdown"}

PowerInit(o) ==
  /\ op = o
  /\ pc = "start"
  /\ loc = [configurations |-> <<>>, i |-> 0, successCount |-> 0,
            results |-> <<>>, error |-> Null]
  /\ outstanding = 0
  /\ log = <<>>

(* handleCheckStatus up to its first await *)
CheckStatusEnter(l) ==
  IF Trim(projectId) = <<>>
    THEN /\ pc' = "done"
         /\ loc' = [l EXCEPT !.error = "Project ID is required"]
         /\ UNCHANGED <<outstanding, log>>
    ELSE /\ pc' = "cs_await_configs"
         /\ loc' = l
         /\ log' = Append(log, Request("getProjectConfigurations", Trim(projectId)))
         /\ outstanding' = outstanding + 1

checkStatus_start ==
  /\ op = "checkStatus" /\ pc = "start"
  /\ CheckStatusEnter(loc)
  /\ UNCHANGED <<op, wizardVars, proxyVars>>

(* configurations arrive; an empty list sets the error and returns         *)
checkStatus_configs ==
  /\ op \in PowerOps /\ pc = "cs_await_configs"
  /\ outstanding' = outstanding - 1
  /\ log' = Append(log, Response(TRUE))
  /\ \E n \in 0..MaxConfigs :
       IF n = 0
         THEN /\ loc' = [loc EXCEPT !.error = "No configurations found"]
              /\ pc' = "done"
         ELSE /\ loc' = [loc EXCEPT !.configurations = Configurations(n),
                                    !.i = 0, !.results = <<>>]
              /\ pc' = "cs_loop"
  /\ UNCHANGED <<op, wizardVars, proxyVars>>

(* outer catch of handleCheckStatus: onComplete({ success: false, ... })   *)
checkStatus_configs_catch ==
  /\ op \in PowerOps /\ pc = "cs_await_configs"
  /\ outstanding' = outstanding - 1
  /\ log' = Append(log, Response(FALSE))
  /\ loc' = [loc EXCEPT !.error = "Failed to retrieve status"]
  /\ steps' = handleStepComplete(steps, StepIds[3], [success |-> FALSE])
  /\ pc' = "done"
  /\ UNCHANGED <<op, wizardRest, proxyVars>>

(* for (const config of configurations) { await getConfigurationStatus     *)
checkStatus_request ==
  /\ op \in PowerOps /\ pc = "cs_loop" /\ loc.i < Len(loc.configurations)
  /\ log' = Append(log, Request("getConfigurationStatus", loc.configurations[loc.i + 1]))
  /\ outstanding' = outstanding + 1
  /\ pc' = "cs_await"
  /\ UNCHANGED <<op, loc, wizardVars, proxyVars>>

checkStatus_success ==
  /\ op \in PowerOps /\ pc = "cs_await"
  /\ outstanding' = outstanding - 1
  /\ log' = Append(log, Response(TRUE))
  /\ \E runstate \in {"running", "suspended"} :
       loc' = [loc EXCEPT !.results = Append(@, [id |-> loc.configurations[loc.i + 1],
                                                 status |-> runstate]),
                          !.i = @ + 1]
  /\ pc' = "cs_loop"
  /\ UNCHANGED <<op, wizardVars, proxyVars>>

(* catch: results.push({ id: config.id, status: 'Unknown', ... })          *)
checkStatus_catch ==
  /\ op \in PowerOps /\ pc = "cs_await"
  /\ outstanding' = outstanding - 1
  /\ log' = Append(log, Response(FALSE))
  /\ loc' = [loc EXCEPT !.results = Append(@, [id |-> loc.configurations[loc.i + 1],
                                               status |-> "Unknown"]),
                        !.i = @ + 1]
  /\ pc' = "cs_loop"
  /\ UNCHANGED <<op, wizardVars, proxyVars>>

(* setStatusResults(results); onComplete({ success: true, ... })           *)
checkStatus_complete ==
  /\ op \in PowerOps /\ pc = "cs_loop" /\ loc.i >= Len(loc.configurations)
  /\ steps' = handleStepComplete(steps, StepIds[3],
                 [success |-> TRUE, totalEnvironments |-> Len(loc.results)])
  /\ pc' = "done"
  /\ UNCHANGED <<op, loc, outstanding, log, wizardRest, proxyVars>>

(* handleDisableAutoshutdown up to its first await *)
disableAutoshutdown_start ==
  /\ op = "disableAutoshutdown" /\ pc = "start"
  /\ IF Trim(projectId) = <<>>
       THEN /\ pc' = "done"
            /\ loc' = [loc EXCEPT !.error = "Project ID is required"]
            /\ UNCHANGED <<outstanding, log>>
       ELSE /\ pc' = "da_await_configs"
            /\ loc' = loc
            /\ log' = Append(log, Request("getProjectConfigurations", Trim(projectId)))
            /\ outstanding' = outstanding + 1
  /\ UNCHANGED <<op, wizardVars, proxyVars>>

disableAutoshutdown_configs ==
  /\ op = "disableAutoshutdown" /\ pc = "da_await_configs"
  /\ outstanding' = outstanding - 1
  /\ log' = Append(log, Response(TRUE))
  /\ \E n \in 0..MaxConfigs :
       IF n = 0
         THEN /\ loc' = [loc EXCEPT !.error = "No configurations found"]
              /\ pc' = "done"
         ELSE /\ loc' = [loc EXCEPT !.configurations = Configurations(n),
                                    !.i = 0, !.successCount = 0]
              /\ pc' = "da_loop"
  /\ UNCHANGED <<op, wizardVars, proxyVars>>

(* outer catch of handleDisableAutoshutdown *)
disableAutoshutdown_configs_catch ==
  /\ op = "disableAutoshutdown" /\ pc = "da_await_configs"
  /\ outstanding' = outstanding - 1
  /\ log' = Append(log, Response(FALSE))
  /\ loc' = [loc EXCEPT !.error = "Failed to disable autoshutdown"]
  /\ steps' = handleStepComplete(steps, StepIds[3], [success |-> FALSE])
  /\ pc' = "done"
  /\ UNCHANGED <<op, wizardRest, proxyVars>>

(* for (const config of configurations) { await disableConfigurationAutoshutdown *)
disableAutoshutdown_request ==
  /\ op = "disableAutoshutdown" /\ pc = "da_loop" /\ loc.i < Len(loc.configurations)
  /\ log' = Append(log, Request("disableConfigurationAutoshutdown",
                                loc.configurations[loc.i + 1]))
  /\ outstanding' = outstanding + 1
  /\ pc' = "da_await"
  /\ UNCHANGED <<op, loc, wizardVars, proxyVars>>

disableAutoshutdown_success ==
  /\ op = "disableAutoshutdown" /\ pc = "da_await"
  /\ outstanding' = outstanding - 1
  /\ log' = Append(log, Response(TRUE))
  /\ loc' = [loc EXCEPT !.successCount = @ + 1, !.i = @ + 1]
  /\ pc' = "da_loop"
  /\ UNCHANGED <<op, wizardVars, proxyVars>>

disableAutoshutdown_catch ==
  /\ op = "disableAutoshutdown" /\ pc = "da_await"
  /\ outstanding' = outstanding - 1
  /\ log' = Append(log, Response(FALSE))
  /\ loc' = [loc EXCEPT !.i = @ + 1]
  /\ pc' = "da_loop"
  /\ UNCHANGED <<op, wizardVars, proxyVars>>

(* The payload of the onComplete call after the disable loop *)
DisableCompletePayload(total, successCount) ==
  [success |-> TRUE, totalEnvironments |-> total, disabledCount |-> successCount]

(* onComplete({ success: true, results: { disabledCount, ... } }), then    *)
(* await handleCheckStatus()                                               *)
disableAutoshutdown_complete ==
  /\ op = "disableAutoshutdown" /\ pc = "da_loop" /\ loc.i >= Len(loc.configurations)
  /\ steps' = handleStepComplete(steps, StepIds[3],
                 DisableCompletePayload(Len(loc.configurations), loc.successCount))
  /\ CheckStatusEnter(loc)
  /\ UNCHANGED <<op, wizardRest, proxyVars>>

NextPower ==
  \/ checkStatus_start
  \/ checkStatus_configs
  \/ checkStatus_configs_catch
  \/ checkStatus_request
  \/ checkStatus_success
  \/ checkStatus_catch
  \/ checkStatus_complete
  \/ disableAutoshutdown_start
  \/ disableAutoshutdown_configs
  \/ disableAutoshutdown_configs_catch
  \/ disableAutoshutdown_request
  \/ disableAutoshutdown_success
  \/ disableAutoshutdown_catch
  \/ disableAutoshutdown_complete

(* The step runs whose completion callback the wizard receives: a copy run *)
(* on the first step, a Power Options run on the third.                    *)
InitSteps ==
  /\ \/ CopyInit /\ WizardAtStep(0)
     \/ (\E o \in PowerOps : PowerInit(o)) /\ WizardAtStep(2)
  /\ ProxyIdle

NextSteps == NextCopy \/ NextPower

SpecSteps == InitSteps /\ [][NextSteps]_vars

----------------------------------------------------------------------------
(* Usage.handleFetchEnvironments / Usage.handleFetchTemplates              *)
(* (label analysis in batches; the two handlers have the same structure)   *)

UsageOps == {"handleFetchEnvironments", "handleFetchTemplates"}

ListApi(o)  == IF o = "handleFetchEnvironments" THEN "getAllConfigurations" ELSE "getAllTemplates"
LabelApi(o) == IF o = "handleFetchEnvironments" THEN "getConfigurationLabels" ELSE "getTemplateLabels"

MinBatchSize == 1
DefaultDelayMs == 1000
MinDelayMs == 500

(* values of the delay slider used here: its minimum and its default *)
DelayChoices == {MinDelayMs, DefaultDelayMs}

(* Math.ceil(n / d) for integers n >= 0, d >= 1 *)
MathCeilDiv(n, d) == (n + d - 1) \div d

(* Math.min *)
MathMin(a, b) == IF a < b THEN a ELSE b

RECURSIVE FilterIds(_, _)
(* ids (positions, from k on) of the fetched entries that pass the filter  *)
FilterIds(keep, k) ==
  IF k > Len(keep) THEN <<>>
  ELSE (IF keep[k] THEN <<k>> ELSE <<>>) \o FilterIds(keep, k + 1)

UsageInit ==
  /\ op \in UsageOps
  /\ pc = "start"
  /\ \E bs \in MinBatchSize..MaxBatchSize, d \in DelayChoices :
       loc = [batchSize |-> bs, delayMs |-> d, ids |-> <<>>,
              totalBatches |-> 0, batchIndex |-> 0, startIndex |-> 0,
              endIndex |-> 0, j |-> 0, labeled |-> 0, unlabeled |-> 0,
              progress |-> Progress(0, 1), fetched |-> FALSE, error |-> Null]
  /\ outstanding = 0
  /\ log = <<>>

(* setFetching(true); await skytapAPI.getAllConfigurations(envCount, 0)    *)
usage_start ==
  /\ op \in UsageOps /\ pc = "start"
  /\ log' = Append(log, Request(ListApi(op), "count"))
  /\ outstanding' = outstanding + 1
  /\ pc' = "await_list"
  /\ UNCHANGED <<op, loc, wizardVars, proxyVars>>

(* the list arrives: the IDs to analyse (templates: only those with an     *)
(* owner_name) and totalBatches = Math.ceil(ids.length / batchSize)        *)
usage_list ==
  /\ op \in UsageOps /\ pc = "await_list"
  /\ outstanding' = outstanding - 1
  /\ log' = Append(log, Response(TRUE))
  /\ \E m \in 0..MaxFetched :
       \E keep \in [1..m -> BOOLEAN] :
         /\ (op = "handleFetchEnvironments" => \A k \in 1..m : keep[k])
         /\ loc' = [loc EXCEPT !.ids = FilterIds(keep, 1),
                               !.totalBatches =
                                  MathCeilDiv(Len(FilterIds(keep, 1)), loc.batchSize),
                               !.batchIndex = 0,
                               !.fetched = TRUE]
  /\ pc' = "batch_head"
  /\ UNCHANGED <<op, wizardVars, proxyVars>>

(* outer catch: the list request failed *)
usage_list_catch ==
  /\ op \in UsageOps /\ pc = "await_list"
  /\ outstanding' = outstanding - 1
  /\ log' = Append(log, Response(FALSE))
  /\ \E e \in Thrown :
       loc' = [loc EXCEPT !.error = ErrorMessage(e, "Failed to fetch")]
  /\ pc' = "done"
  /\ UNCHANGED <<op, wizardVars, proxyVars>>

(* for (batchIndex < totalBatches): startIndex, endIndex, slice            *)
usage_batch_begin ==
  /\ op \in UsageOps /\ pc = "batch_head" /\ loc.batchIndex < loc.totalBatches
  /\ loc' = [loc EXCEPT !.startIndex = loc.batchIndex * loc.batchSize,
                        !.endIndex = MathMin(loc.batchIndex * loc.batchSize + loc.batchSize,
                                             Len(loc.ids)),
                        !.j = loc.batchIndex * loc.batchSize]
  /\ pc' = "items"
  /\ UNCHANGED <<op, outstanding, log, wizardVars, proxyVars>>

(* for (const id of batchIds) { await skytapAPI.getConfigurationLabels(id) *)
usage_label_request ==
  /\ op \in UsageOps /\ pc = "items" /\ loc.j < loc.endIndex
  /\ log' = Append(log, Request(LabelApi(op), loc.ids[loc.j + 1]))
  /\ outstanding' = outstanding + 1
  /\ pc' = "await_labels"
  /\ UNCHANGED <<op, loc, wizardVars, proxyVars>>

(* labels arrive: with a Billing Category label the entry is counted,      *)
(* without one it is listed as unlabeled                                   *)
usage_labels ==
  /\ op \in UsageOps /\ pc = "await_labels"
  /\ outstanding' = outstanding - 1
  /\ log' = Append(log, Response(TRUE))
  /\ \E hasBillingCategory \in BOOLEAN :
       loc' = IF hasBillingCategory
                THEN [loc EXCEPT !.labeled = @ + 1, !.j = @ + 1]
                ELSE [loc EXCEPT !.unlabeled = @ + 1, !.j = @ + 1]
  /\ pc' = "items"
  /\ UNCHANGED <<op, wizardVars, proxyVars>>

(* catch: the entry is listed as unlabeled *)
usage_labels_catch ==
  /\ op \in UsageOps /\ pc = "await_labels"
  /\ outstanding' = outstanding - 1
  /\ log' = Append(log, Response(FALSE))
  /\ loc' = [loc EXCEPT !.unlabeled = @ + 1, !.j = @ + 1]
  /\ pc' = "items"
  /\ UNCHANGED <<op, wizardVars, proxyVars>>

(* Mutant: the pause is taken after the last batch as well.                *)
PauseNeeded_always(batchIndex, totalBatches) == batchIndex < totalBatches

(* if (batchIndex < totalBatches - 1) *)
PauseNeeded(batchIndex, totalBatches) == batchIndex < totalBatches - 1

(* the batch is done: setProgress, then the delay unless it was the last   *)
usage_batch_end ==
  /\ op \in UsageOps /\ pc = "items" /\ loc.j >= loc.endIndex
  /\ IF PauseNeeded(loc.batchIndex, loc.totalBatches)
       THEN /\ log' = Append(log, Pause(loc.delayMs))
            /\ loc' = [loc EXCEPT !.progress = Progress(loc.batchIndex + 1, loc.totalBatches)]
            /\ pc' = "pause"
       ELSE /\ log' = log
            /\ loc' = [loc EXCEPT !.progress = Progress(loc.batchIndex + 1, loc.totalBatches),
                                  !.batchIndex = @ + 1]
            /\ pc' = "batch_head"
  /\ UNCHANGED <<op, outstanding, wizardVars, proxyVars>>

(* the setTimeout of delayMs fires *)
usage_pause_elapsed ==
  /\ op \in UsageOps /\ pc = "pause"
  /\ loc' = [loc EXCEPT !.batchIndex = @ + 1]
  /\ pc' = "batch_head"
  /\ UNCHANGED <<op, outstanding, log, wizardVars, proxyVars>>

(* the loop ends: setResults, toast, finally setFetching(false) *)
usage_finish ==
  /\ op \in UsageOps /\ pc = "batch_head" /\ loc.batchIndex >= loc.totalBatches
  /\ pc' = "done"
  /\ UNCHANGED <<op, loc, outstanding, log, wizardVars, proxyVars>>

InitUsage == UsageInit /\ WizardIdle /\ ProxyIdle

NextUsage ==
  \/ usage_start
  \/ usage_list
  \/ usage_list_catch
  \/ usage_batch_begin
  \/ usage_label_request
  \/ usage_labels
  \/ usage_labels_catch
  \/ usage_batch_end
  \/ usage_pause_elapsed
  \/ usage_finish

SpecUsage == InitUsage /\ [][NextUsage]_vars

----------------------------------------------------------------------------
(* CreateSchedulers.handleCreateSchedulers                                 *)
(* (pages/training/CreateSchedulers.tsx)                                   *)

MinutesPerDay == 1440

DefaultStaggerMinutes == 10

(* what validateForm accepts and the start-time arithmetic reads: the      *)
(* stagger (handleChange keeps it >= 1), the start date as a day number,   *)
(* the start time as minutes after midnight, and the offset in minutes of  *)
(* the browser's local time from UTC                                       *)
SchedulerForms ==
  [staggerMinutes : {1, DefaultStaggerMinutes}, startDay : {1, 2},
   startMinutes : {540, 1435}, browserOffset : {-300, 0, 330}]

DefaultSchedulerForm ==
  [staggerMinutes |-> DefaultStaggerMinutes, startDay |-> 1, startMinutes |-> 540,
   browserOffset |-> 0]

(* new Date('yyyy-MM-dd'): a date-only text is midnight UTC of that day,   *)
(* as minutes since day 0                                                  *)
DateOnly(day) == day * MinutesPerDay

(* new Date(`${startDate}T${startTime}`): a date-time text without offset  *)
(* is local time; getHours() * 60 + getMinutes()                           *)
BaseStartMinutes(form) == form.startMinutes

(* date.setHours(h, m, 0) followed by format(date, 'yyyy/MM/dd HH:mm:ss'): *)
(* the local calendar day of the instant is kept, the local time of day is *)
(* replaced (hours past 23 roll over); the result as local wall-clock      *)
(* minutes since day 0                                                     *)
SetHoursLocal(instant, browserOffset, h, m) ==
  ((instant + browserOffset) \div MinutesPerDay) * MinutesPerDay + h * 60 + m

(* start_at of the scheduler of the i-th configuration *)
StaggeredStart(form, i) ==
  LET staggeredMinutes == BaseStartMinutes(form) + i * form.staggerMinutes
      staggeredHours   == staggeredMinutes \div 60
      staggeredMins    == staggeredMinutes % 60
  IN SetHoursLocal(DateOnly(form.startDay), form.browserOffset,
                   staggeredHours, staggeredMins)

SchedulersInitWith(forms) ==
  /\ op = "handleCreateSchedulers"
  /\ pc = "start"
  /\ \E formOk \in BOOLEAN, form \in forms :
       loc = [formOk |-> formOk, form |-> form, configurations |-> <<>>, i |-> 0,
              schedulerResults |-> <<>>, totalSteps |-> 0, currentStep |-> 0,
              progress |-> Progress(0, 1), error |-> Null]
  /\ outstanding = 0
  /\ log = <<>>

SchedulersInit == SchedulersInitWith({DefaultSchedulerForm})

(* validateForm, the reset, then await getProjectConfigurations(projectId) *)
schedulers_start ==
  /\ op = "handleCreateSchedulers" /\ pc = "start"
  /\ IF loc.formOk
       THEN /\ log' = Append(log, Request("getProjectConfigurations", projectId))
            /\ outstanding' = outstanding + 1
            /\ loc' = loc
            /\ pc' = "await_configs"
       ELSE /\ loc' = [loc EXCEPT !.error = "validation"]
            /\ pc' = "done"
            /\ UNCHANGED <<outstanding, log>>
  /\ UNCHANGED <<op, wizardVars, proxyVars>>

(* configurations arrive; an empty list throws into the outer catch, which *)
(* calls onComplete({ success: false, ... })                               *)
schedulers_configs ==
  /\ op = "handleCreateSchedulers" /\ pc = "await_configs"
  /\ outstanding' = outstanding - 1
  /\ log' = Append(log, Response(TRUE))
  /\ \E n \in 0..MaxConfigs :
       IF n = 0
         THEN /\ loc' = [loc EXCEPT !.error = "No configurations found in the specified project"]
              /\ steps' = handleStepComplete(steps, StepIds[2], [success |-> FALSE])
              /\ pc' = "done"
         ELSE /\ loc' = [loc EXCEPT !.configurations = Configurations(n),
                                    !.totalSteps = n, !.currentStep = 0, !.i = 0]
              /\ steps' = steps
              /\ pc' = "loop"
  /\ UNCHANGED <<op, wizardRest, proxyVars>>

schedulers_configs_catch ==
  /\ op = "handleCreateSchedulers" /\ pc = "await_configs"
  /\ outstanding' = outstanding - 1
  /\ log' = Append(log, Response(FALSE))
  /\ \E e \in Thrown :
       loc' = [loc EXCEPT !.error = ErrorMessage(e, "Failed to create schedulers")]
  /\ steps' = handleStepComplete(steps, StepIds[2], [success |-> FALSE])
  /\ pc' = "done"
  /\ UNCHANGED <<op, wizardRest, proxyVars>>

(* for (let i = 0; i < configurations.length; i++) { await createScheduler *)
schedulers_request ==
  /\ op = "handleCreateSchedulers" /\ pc = "loop" /\ loc.i < Len(loc.configurations)
  /\ log' = Append(log, Request("createScheduler",
                               [configuration_id |-> loc.configurations[loc.i + 1],
                                start_at |-> StaggeredStart(loc.form, loc.i)]))
  /\ outstanding' = outstanding + 1
  /\ pc' = "await_scheduler"
  /\ UNCHANGED <<op, loc, wizardVars, proxyVars>>

(* schedulerResults.push(...); currentStep++; setProgress *)
schedulers_success ==
  /\ op = "handleCreateSchedulers" /\ pc = "await_scheduler"
  /\ outstanding' = outstanding - 1
  /\ log' = Append(log, Response(TRUE))
  /\ loc' = [loc EXCEPT !.schedulerResults = Append(@, loc.configurations[loc.i + 1]),
                        !.currentStep = @ + 1,
                        !.progress = Progress(loc.currentStep + 1, loc.totalSteps),
                        !.i = @ + 1]
  /\ pc' = "loop"
  /\ UNCHANGED <<op, wizardVars, proxyVars>>

(* catch { addLog }; currentStep++; setProgress *)
schedulers_catch ==
  /\ op = "handleCreateSchedulers" /\ pc = "await_scheduler"
  /\ outstanding' = outstanding - 1
  /\ log' = Append(log, Response(FALSE))
  /\ loc' = [loc EXCEPT !.currentStep = @ + 1,
                        !.progress = Progress(loc.currentStep + 1, loc.totalSteps),
                        !.i = @ + 1]
  /\ pc' = "loop"
  /\ UNCHANGED <<op, wizardVars, proxyVars>>

(* setResults; setProgress(100); onComplete({ success: true, ... }) *)
schedulers_complete ==
  /\ op = "handleCreateSchedulers" /\ pc = "loop" /\ loc.i >= Len(loc.configurations)
  /\ loc' = [loc EXCEPT !.progress = Progress(1, 1)]
  /\ steps' = handleStepComplete(steps, StepIds[2],
                 [success |-> TRUE, totalSchedulers |-> Len(loc.schedulerResults)])
  /\ pc' = "done"
  /\ UNCHANGED <<op, outstanding, log, wizardRest, proxyVars>>

NextSchedulers ==
  \/ schedulers_start
  \/ schedulers_configs
  \/ schedulers_configs_catch
  \/ schedulers_request
  \/ schedulers_success
  \/ schedulers_catch
  \/ schedulers_complete

InitSchedulers == SchedulersInitWith(SchedulerForms) /\ WizardAtStep(1) /\ ProxyIdle

SpecSchedulers == InitSchedulers /\ [][NextSchedulers]_vars

----------------------------------------------------------------------------
(* Billing.handleGenerateReport (pages/utilities/Billing)                  *)

PollIntervalMs == 1000

ReportKinds == {"x86", "storage"}

BillingInit ==
  /\ op = "handleGenerateReport"
  /\ pc = "start"
  /\ \E formOk \in BOOLEAN :
       loc = [formOk |-> formOk, pending |-> {}, x86Ready |-> FALSE,
              storageReady |-> FALSE, attempts |-> 0, error |-> Null,
              results |-> FALSE]
  /\ outstanding = 0
  /\ log = <<>>

(* await Promise.all([createX86Report(...), createStorageReport(...)]):    *)
(* both requests are sent before the handler waits                         *)
CreateReports ==
  /\ log' = log \o <<Request("createX86Report", "dates"),
                     Request("createStorageReport", "dates")>>
  /\ outstanding' = outstanding + 2
  /\ loc' = [loc EXCEPT !.pending = ReportKinds]
  /\ pc' = "await_create"

(* the three validations, then the two report-creation requests *)
billing_start ==
  /\ op = "handleGenerateReport" /\ pc = "start"
  /\ IF loc.formOk
       THEN CreateReports
       ELSE /\ loc' = [loc EXCEPT !.error = "validation"]
            /\ pc' = "done"
            /\ UNCHANGED <<outstanding, log>>
  /\ UNCHANGED <<op, wizardVars, proxyVars>>

(* while ((!x86Ready || !storageReady) && attempts < maxAttempts): the     *)
(* head of the polling loop and what follows the loop                      *)
BillingLoopHead(l, lg) ==
  IF (~l.x86Ready \/ ~l.storageReady) /\ l.attempts < MaxPollAttempts
    THEN /\ log' = Append(lg, Pause(PollIntervalMs))
         /\ loc' = l
         /\ pc' = "poll_wait"
    ELSE /\ log' = lg
         /\ loc' = IF ~l.x86Ready \/ ~l.storageReady
                     THEN [l EXCEPT !.error = "Reports did not complete within the timeout period"]
                     ELSE [l EXCEPT !.results = TRUE]
         /\ pc' = "done"

(* one of the two creations is answered; Promise.all resolves with the     *)
(* second answer                                                           *)
billing_create_response ==
  /\ op = "handleGenerateReport" /\ pc = "await_create"
  /\ outstanding' = outstanding - 1
  /\ \E r \in loc.pending :
       LET l1 == [loc EXCEPT !.pending = @ \ {r}]
       IN IF l1.pending = {}
            THEN BillingLoopHead(l1, Append(log, Response(TRUE)))
            ELSE /\ log' = Append(log, Response(TRUE))
                 /\ loc' = l1
                 /\ pc' = "await_create"
  /\ UNCHANGED <<op, wizardVars, proxyVars>>

(* one of the two creations fails: Promise.all rejects at once and the     *)
(* catch ends the handler; the other request may still be out              *)
billing_create_catch ==
  /\ op = "handleGenerateReport" /\ pc = "await_create"
  /\ outstanding' = outstanding - 1
  /\ log' = Append(log, Response(FALSE))
  /\ \E r \in loc.pending, e \in Thrown :
       loc' = [loc EXCEPT !.pending = @ \ {r},
                          !.error = ErrorMessage(e, "Failed to generate billing report")]
  /\ pc' = "done"
  /\ UNCHANGED <<op, wizardVars, proxyVars>>

(* the answer to the other creation arrives after the handler ended *)
billing_late_response ==
  /\ op = "handleGenerateReport" /\ pc = "done" /\ outstanding > 0
  /\ outstanding' = outstanding - 1
  /\ \E ok \in BOOLEAN : log' = Append(log, Response(ok))
  /\ loc' = [loc EXCEPT !.pending = {}]
  /\ UNCHANGED <<op, pc, wizardVars, proxyVars>>

(* Mutant: both reports are polled at the same time.                       *)
billing_wait_elapsed_parallel ==
  /\ op = "handleGenerateReport" /\ pc = "poll_wait"
  /\ log' = log \o <<Request("getReportResults", "x86"),
                     Request("getReportResults", "storage")>>
  /\ pc' = "await_x86"
  /\ outstanding' = outstanding + 2
  /\ UNCHANGED <<op, loc, wizardVars, proxyVars>>

(* the 1 s wait is over: poll the x86 report unless it is ready, else the  *)
(* storage report                                                          *)
billing_wait_elapsed ==
  /\ op = "handleGenerateReport" /\ pc = "poll_wait"
  /\ IF ~loc.x86Ready
       THEN /\ log' = Append(log, Request("getReportResults", "x86"))
            /\ pc' = "await_x86"
       ELSE /\ log' = Append(log, Request("getReportResults", "storage"))
            /\ pc' = "await_storage"
  /\ outstanding' = outstanding + 1
  /\ UNCHANGED <<op, loc, wizardVars, proxyVars>>

PollOutcomes == {"ready", "notReady", "throw"}

(* the x86 poll is answered (a throw is swallowed); then the storage poll  *)
(* unless that report is ready, else attempts++ and the loop head          *)
billing_x86_response ==
  /\ op = "handleGenerateReport" /\ pc = "await_x86"
  /\ \E outcome \in PollOutcomes :
       LET l1 == [loc EXCEPT !.x86Ready = (outcome = "ready")]
           lg == Append(log, Response(outcome # "throw"))
       IN IF ~l1.storageReady
            THEN /\ log' = Append(lg, Request("getReportResults", "storage"))
                 /\ outstanding' = outstanding
                 /\ loc' = l1
                 /\ pc' = "await_storage"
            ELSE /\ outstanding' = outstanding - 1
                 /\ BillingLoopHead([l1 EXCEPT !.attempts = @ + 1], lg)
  /\ UNCHANGED <<op, wizardVars, proxyVars>>

(* the storage poll is answered; attempts++ and the loop head *)
billing_storage_response ==
  /\ op = "handleGenerateReport" /\ pc = "await_storage"
  /\ outstanding' = outstanding - 1
  /\ \E outcome \in PollOutcomes :
       BillingLoopHead([loc EXCEPT !.storageReady = (outcome = "ready"),
                                   !.attempts = @ + 1],
                       Append(log, Response(outcome # "throw")))
  /\ UNCHANGED <<op, wizardVars, proxyVars>>

NextBilling ==
  \/ billing_start
  \/ billing_create_response
  \/ billing_create_catch
  \/ billing_late_response
  \/ billing_wait_elapsed
  \/ billing_x86_response
  \/ billing_storage_response

----------------------------------------------------------------------------
(* PartnerDeploy.onSubmit / deployPartnerEnvironment                       *)
(* (pages/PartnerDeploy)                                                   *)

(* The requests that follow the deployment, in program order: the two      *)
(* attach calls are made only with at least two VMs, each only if its VM   *)
(* has a first interface.                                                  *)
PartnerStages(nVms, iface1, iface2) ==
  <<"addConfigurationToProject", "acquirePublicIp", "acquirePublicIp">>
  \o (IF nVms >= 2 /\ iface1 THEN <<"attachIpToInterface">> ELSE <<>>)
  \o (IF nVms >= 2 /\ iface2 THEN <<"attachIpToInterface">> ELSE <<>>)
  \o <<"createPublishSet", "getPublishSet">>

MaxVms == 2

PartnerInit ==
  /\ op = "deployPartnerEnvironment"
  /\ pc = "start"
  /\ \E templateOk \in BOOLEAN :
       loc = [templateOk |-> templateOk, stages |-> <<>>, k |-> 0,
              deployed |-> FALSE, deploymentData |-> FALSE, error |-> Null]
  /\ outstanding = 0
  /\ log = <<>>

(* onSubmit resets the state and calls deployPartnerEnvironment, which     *)
(* throws without a template ID and else awaits deployFromTemplate         *)
partner_start ==
  /\ op = "deployPartnerEnvironment" /\ pc = "start"
  /\ IF loc.templateOk
       THEN /\ log' = Append(log, Request("deployFromTemplate", "template"))
            /\ outstanding' = outstanding + 1
            /\ loc' = loc
            /\ pc' = "await_deploy"
       ELSE /\ loc' = [loc EXCEPT !.error = "No template ID found for region"]
            /\ pc' = "done"
            /\ UNCHANGED <<outstanding, log>>
  /\ UNCHANGED <<op, wizardVars, proxyVars>>

(* the environment arrives with its VMs and their interfaces *)
partner_deployed ==
  /\ op = "deployPartnerEnvironment" /\ pc = "await_deploy"
  /\ outstanding' = outstanding - 1
  /\ log' = Append(log, Response(TRUE))
  /\ \E nVms \in 0..MaxVms, iface1 \in BOOLEAN, iface2 \in BOOLEAN :
       loc' = [loc EXCEPT !.stages = PartnerStages(nVms, iface1, iface2),
                          !.k = 0, !.deployed = TRUE]
  /\ pc' = "stage"
  /\ UNCHANGED <<op, wizardVars, proxyVars>>

(* the next await of deployPartnerEnvironment *)
partner_request ==
  /\ op = "deployPartnerEnvironment" /\ pc = "stage" /\ loc.k < Len(loc.stages)
  /\ log' = Append(log, Request(loc.stages[loc.k + 1], loc.k + 1))
  /\ outstanding' = outstanding + 1
  /\ pc' = "await_stage"
  /\ UNCHANGED <<op, loc, wizardVars, proxyVars>>

partner_response ==
  /\ op = "deployPartnerEnvironment" /\ pc = "await_stage"
  /\ outstanding' = outstanding - 1
  /\ log' = Append(log, Response(TRUE))
  /\ loc' = [loc EXCEPT !.k = @ + 1]
  /\ pc' = "stage"
  /\ UNCHANGED <<op, wizardVars, proxyVars>>

(* any request of the deployment throws: onSubmit's catch ends the run     *)
partner_catch ==
  /\ op = "deployPartnerEnvironment" /\ pc \in {"await_deploy", "await_stage"}
  /\ outstanding' = outstanding - 1
  /\ log' = Append(log, Response(FALSE))
  /\ \E e \in Thrown :
       loc' = [loc EXCEPT !.error = ErrorMessage(e, "An error occurred during deployment")]
  /\ pc' = "done"
  /\ UNCHANGED <<op, wizardVars, proxyVars>>

(* deployPartnerEnvironment returns: setDeploymentData, toast *)
partner_complete ==
  /\ op = "deployPartnerEnvironment" /\ pc = "stage" /\ loc.k >= Len(loc.stages)
  /\ loc' = [loc EXCEPT !.deploymentData = TRUE]
  /\ pc' = "done"
  /\ UNCHANGED <<op, outstanding, log, wizardVars, proxyVars>>

NextPartner ==
  \/ partner_start
  \/ partner_deployed
  \/ partner_request
  \/ partner_response
  \/ partner_catch
  \/ partner_complete

----------------------------------------------------------------------------
(* The user-triggered operations that make network calls: one run of one   *)
(* of them.                                                                *)

Operations ==
  BatchOps \cup UsageOps \cup
  {"copy", "handleCreateSchedulers", "handleGenerateReport", "deployPartnerEnvironment"}

InitOps ==
  /\ \/ (\E o \in BatchOps : BatchInit(o)) /\ WizardIdle
     \/ UsageInit /\ WizardIdle
     \/ CopyInit /\ WizardAtStep(0)
     \/ SchedulersInit /\ WizardAtStep(1)
     \/ BillingInit /\ WizardIdle
     \/ PartnerInit /\ WizardIdle
  /\ ProxyIdle

NextOps ==
  \/ NextBatch
  \/ NextUsage
  \/ NextCopy
  \/ NextSchedulers
  \/ NextBilling
  \/ NextPartner

SpecOps == InitOps /\ [][NextOps]_vars

----------------------------------------------------------------------------
(* Development proxy: server.proxy['/api'] of vite.config.ts               *)

(* An environment variable: undefined, or a string given as its bytes      *)
Undefined == [defined |-> FALSE, value |-> <<>>]
Str(bytes) == [defined |-> TRUE, value |-> bytes]

(* bytes of the characters used in credentials: ':', 'a', 'z' *)
CredBytes == {58, 97, 122}
Colon == 58

EnvValues == {Undefined} \cup {Str(b) : b \in SeqsUpTo(CredBytes, MaxCredLen)}

(* JavaScript truthiness of an environment variable *)
Truthy(v) == v.defined /\ v.value # <<>>

(* `${v}` in a template string: undefined prints as the word undefined     *)
TemplateText(v) ==
  IF v.defined THEN v.value ELSE <<117, 110, 100, 101, 102, 105, 110, 101, 100>>

Pad == 64

RECURSIVE Base64Encode(_)
(* Buffer.toString('base64'): sextets 0..63, Pad for '=' *)
Base64Encode(b) ==
  IF Len(b) = 0 THEN <<>>
  ELSE IF Len(b) = 1
    THEN <<b[1] \div 4, (b[1] % 4) * 16, Pad, Pad>>
  ELSE IF Len(b) = 2
    THEN <<b[1] \div 4, (b[1] % 4) * 16 + b[2] \div 16, (b[2] % 16) * 4, Pad>>
  ELSE <<b[1] \div 4, (b[1] % 4) * 16 + b[2] \div 16,
         (b[2] % 16) * 4 + b[3] \div 64, b[3] % 64>>
       \o Base64Encode(SubSeq(b, 4, Len(b)))

(* Mutant: the header is added when either variable is set.                *)
HasCredentials_either(e) == Truthy(e.SKYTAP_USER) \/ Truthy(e.SKYTAP_TOKEN)

(* if (username && token) *)
HasCredentials(e) == Truthy(e.SKYTAP_USER) /\ Truthy(e.SKYTAP_TOKEN)

NoHeader == [present |-> FALSE, scheme |-> "", credentials |-> <<>>]

(* path.replace(/^\/api/, '') on a path given as its segments *)
Rewrite(path) == IF path # <<>> /\ path[1] = "api" THEN Tail(path) ELSE path

(* the request as the application sends it to the proxy (makeRequest sets  *)
(* Content-Type and Accept and no Authorization)                           *)
Incoming(path) ==
  [path |-> path,
   headers |-> [Authorization |-> NoHeader,
                ContentType |-> "application/json", Accept |-> "application/json"]]

(* the proxyReq handler and the rewrite: the request as it is forwarded    *)
ProxyReq(e, req) ==
  [path |-> Rewrite(req.path),
   headers |->
     [Authorization |->
        IF HasCredentials(e)
          THEN [present |-> TRUE, scheme |-> "Basic",
                credentials |-> Base64Encode(TemplateText(e.SKYTAP_USER) \o <<Colon>>
                                             \o TemplateText(e.SKYTAP_TOKEN))]
          ELSE req.headers.Authorization,
      ContentType |-> "application/json",
      Accept |-> "application/json"]]

ApiPaths == {<<"api", "v2", "projects">>, <<"api", "reports.json">>}

ProxyInit ==
  /\ env \in [SKYTAP_USER : EnvValues, SKYTAP_TOKEN : EnvValues]
  /\ forwarded = <<>>

(* a request under /api reaches the proxy and is forwarded *)
proxy_forward ==
  /\ Len(forwarded) < MaxForwarded
  /\ \E path \in ApiPaths :
       forwarded' = Append(forwarded, ProxyReq(env, Incoming(path)))
  /\ UNCHANGED <<env, runVars, wizardVars>>

InitProxy == ProxyInit /\ RunIdle /\ WizardIdle

NextProxy == proxy_forward

SpecProxy == InitProxy /\ [][NextProxy]_vars

----------------------------------------------------------------------------
(* SkytapAPI.getAllUsers, called by Users.handleListUsers                  *)

MaxPerRequest == 100

(* the server holds users 1..n in its order and honours count and offset  *)
ServerPage(n, count, offset) ==
  [k \in 1..(IF offset >= n THEN 0 ELSE MathMin(count, n - offset)) |-> offset + k]

(* Array.prototype.slice(0, count) *)
Slice0(a, count) == SubSeq(a, 1, MathMin(count, Len(a)))

(* Mutant: the offset does not advance.                                    *)
NextOffset_stuck(offset, batchSize) == offset

(* offset += batchSize *)
NextOffset(offset, batchSize) == offset + batchSize

UsersInit ==
  /\ op = "getAllUsers"
  /\ pc = "start"
  /\ \E maxResults \in 0..MaxCount, n \in 0..MaxServerUsers :
       loc = [count |-> maxResults, serverUsers |-> n, allUsers |-> <<>>,
              offset |-> 0, batchSize |-> 0, hasMore |-> TRUE,
              returned |-> <<>>, error |-> Null]
  /\ outstanding = 0
  /\ log = <<>>

(* handleListUsers rejects a count that is not positive; getAllUsers sets  *)
(* batchSize = Math.min(count, 100)                                        *)
users_start ==
  /\ op = "getAllUsers" /\ pc = "start"
  /\ IF loc.count <= 0
       THEN /\ loc' = [loc EXCEPT !.error = "Please enter a valid number of results"]
            /\ pc' = "done"
       ELSE /\ loc' = [loc EXCEPT !.batchSize = MathMin(loc.count, MaxPerRequest)]
            /\ pc' = "loop"
  /\ UNCHANGED <<op, outstanding, log, wizardVars, proxyVars>>

(* while (hasMore && allUsers.length < count) { await makeRequest(...)     *)
users_request ==
  /\ op = "getAllUsers" /\ pc = "loop"
  /\ loc.hasMore /\ Len(loc.allUsers) < loc.count
  /\ log' = Append(log, Request("users", [count |-> loc.batchSize, offset |-> loc.offset]))
  /\ outstanding' = outstanding + 1
  /\ pc' = "await"
  /\ UNCHANGED <<op, loc, wizardVars, proxyVars>>

(* the batch arrives: an empty one ends the loop, a short one is the last  *)
users_batch ==
  /\ op = "getAllUsers" /\ pc = "await"
  /\ outstanding' = outstanding - 1
  /\ log' = Append(log, Response(TRUE))
  /\ LET batch == ServerPage(loc.serverUsers, loc.batchSize, loc.offset)
     IN IF Len(batch) = 0
          THEN loc' = [loc EXCEPT !.hasMore = FALSE]
          ELSE loc' = [loc EXCEPT !.allUsers = @ \o batch,
                                  !.offset = NextOffset(loc.offset, loc.batchSize),
                                  !.hasMore = ~(Len(batch) < loc.batchSize)]
  /\ pc' = "loop"
  /\ UNCHANGED <<op, wizardVars, proxyVars>>

(* the request throws: getAllUsers rejects and handleListUsers sets error  *)
users_catch ==
  /\ op = "getAllUsers" /\ pc = "await"
  /\ outstanding' = outstanding - 1
  /\ log' = Append(log, Response(FALSE))
  /\ \E e \in Thrown : loc' = [loc EXCEPT !.error = ErrorMessage(e, "Failed to fetch users")]
  /\ pc' = "thrown"
  /\ UNCHANGED <<op, wizardVars, proxyVars>>

(* return allUsers.slice(0, count) *)
users_return ==
  /\ op = "getAllUsers" /\ pc = "loop"
  /\ ~(loc.hasMore /\ Len(loc.allUsers) < loc.count)
  /\ loc' = [loc EXCEPT !.returned = Slice0(loc.allUsers, loc.count)]
  /\ pc' = "returned"
  /\ UNCHANGED <<op, outstanding, log, wizardVars, proxyVars>>

InitUsers == UsersInit /\ WizardIdle /\ ProxyIdle

NextUsers ==
  \/ users_start
  \/ users_request
  \/ users_batch
  \/ users_catch
  \/ users_return

SpecUsers == InitUsers /\ [][NextUsers]_vars

----------------------------------------------------------------------------
(* RunningNow: the refresh controls of the Running Now dashboard           *)

DefaultRefreshSeconds == 30

(* characters typed into the Refresh Interval field *)
TypedChars == {"-", "0", "1", "3", "5"}
TypedTexts == SeqsUpTo(TypedChars, MaxTyped)

IsDigit(c) == c \in {"0", "1", "2", "3", "4", "5", "6", "7", "8", "9"}

DigitValue(c) ==
  CASE c = "0" -> 0 [] c = "1" -> 1 [] c = "2" -> 2 [] c = "3" -> 3 [] c = "4" -> 4
    [] c = "5" -> 5 [] c = "6" -> 6 [] c = "7" -> 7 [] c = "8" -> 8 [] c = "9" -> 9

(* e.target.value of <input type="number">: the text if it is a number,    *)
(* otherwise the empty string                                              *)
NumberInputValue(text) ==
  LET digits == IF text # <<>> /\ text[1] = "-" THEN Tail(text) ELSE text
  IN IF digits # <<>> /\ \A k \in 1..Len(digits) : IsDigit(digits[k])
       THEN text ELSE <<>>

RECURSIVE DigitsValue(_, _)
DigitsValue(digits, acc) ==
  IF digits = <<>> \/ ~IsDigit(digits[1]) THEN acc
  ELSE DigitsValue(Tail(digits), acc * 10 + DigitValue(digits[1]))

(* parseInt(text): [nan |-> TRUE] when no digit leads the text *)
ParseInt(text) ==
  LET neg    == text # <<>> /\ text[1] = "-"
      digits == IF neg THEN Tail(text) ELSE text
  IN IF digits = <<>> \/ ~IsDigit(digits[1])
       THEN [nan |-> TRUE, value |-> 0]
       ELSE [nan |-> FALSE,
             value |-> IF neg THEN 0 - DigitsValue(digits, 0) ELSE DigitsValue(digits, 0)]

(* parseInt(e.target.value) || 30 *)
ParsedOrDefault(text) ==
  LET n == ParseInt(NumberInputValue(text))
  IN IF n.nan \/ n.value = 0 THEN DefaultRefreshSeconds ELSE n.value

(* the auto-refresh effect: the period in ms of the interval timer it      *)
(* leaves armed, 0 for none                                                *)
AutoRefreshTimer(autoRefresh, refreshInterval) ==
  IF autoRefresh /\ refreshInterval > 0 THEN refreshInterval * 1000 ELSE 0

RunningInit ==
  /\ op = "RunningNow"
  /\ pc = "mounted"
  /\ loc = [refreshInterval |-> DefaultRefreshSeconds, autoRefresh |-> TRUE,
            timerMs |-> AutoRefreshTimer(TRUE, DefaultRefreshSeconds), ticks |-> 0]
  /\ outstanding = 1
  /\ log = <<>>

(* onChange of the Refresh Interval field, then the effect re-runs *)
running_onChange ==
  /\ op = "RunningNow"
  /\ \E text \in TypedTexts :
       LET v == ParsedOrDefault(text)
       IN loc' = [loc EXCEPT !.refreshInterval = v,
                             !.timerMs = AutoRefreshTimer(loc.autoRefresh, v)]
  /\ UNCHANGED <<op, pc, outstanding, log, wizardVars, proxyVars>>

(* the Auto Refresh button, then the effect re-runs *)
running_toggle ==
  /\ op = "RunningNow"
  /\ loc' = [loc EXCEPT !.autoRefresh = ~loc.autoRefresh,
                        !.timerMs = AutoRefreshTimer(~loc.autoRefresh, loc.refreshInterval)]
  /\ UNCHANGED <<op, pc, outstanding, log, wizardVars, proxyVars>>

(* the interval timer fires: fetchRunningEnvironments sends its request *)
running_tick ==
  /\ op = "RunningNow"
  /\ loc.timerMs # 0
  /\ loc.ticks < MaxTicks
  /\ loc' = [loc EXCEPT !.ticks = @ + 1]
  /\ outstanding' = outstanding + 1
  /\ UNCHANGED <<op, pc, log, wizardVars, proxyVars>>

(* a fetch is answered or fails; either way the controls are untouched *)
running_fetched ==
  /\ op = "RunningNow"
  /\ outstanding > 0
  /\ outstanding' = outstanding - 1
  /\ UNCHANGED <<op, pc, loc, log, wizardVars, proxyVars>>

InitRunning == RunningInit /\ WizardIdle /\ ProxyIdle

NextRunning ==
  \/ running_onChange
  \/ running_toggle
  \/ running_tick
  \/ running_fetched

SpecRunning == InitRunning /\ [][NextRunning]_vars

----------------------------------------------------------------------------
(* ProjectCleaner (pages/utilities/ProjectCleaner.tsx) with its controls   *)
(* and table                                                               *)

Counts == {0, 1}

RECURSIVE DistinctIds(_)
DistinctIds(list) ==
  list = <<>> \/ (DistinctIds(Tail(list)) /\ \A k \in 2..Len(list) : list[k].id # list[1].id)

(* what GET /v2/projects can answer: projects with distinct IDs *)
FetchedProjects ==
  {l \in SeqsUpTo([id : Ids, configuration_count : Counts, template_count : Counts],
                  MaxProjects) : DistinctIds(l)}

IsEmptyProject(project) == project.configuration_count = 0

(* Mutant: nothing is filtered out.                                        *)
findEmptyProjects_all(projects) == projects

(* projects.filter(project => project.configuration_count === 0) *)
findEmptyProjects(projects) == SelectSeq(projects, IsEmptyProject)

(* projects.map(project => ({ id, name, configurationCount, templateCount })) *)
EmptyProjectsData(projects) ==
  [k \in 1..Len(projects) |->
     [id |-> projects[k].id, configurationCount |-> projects[k].configuration_count,
      templateCount |-> projects[k].template_count]]

IdsOf(list) == [k \in 1..Len(list) |-> list[k].id]

InSeq(x, q) == \E k \in 1..Len(q) : q[k] = x

Without(q, drop) == SelectSeq(q, LAMBDA x : x # drop)

(* [...emptyProjects].sort((a, b) => a[field] - b[field]) (or b - a): the  *)
(* sort is stable and the fields hold values of Counts                     *)
SortedBy(list, field, direction) ==
  LET low  == SelectSeq(list, LAMBDA p : p[field] = 0)
      high == SelectSeq(list, LAMBDA p : p[field] # 0)
  IN IF direction = "asc" THEN low \o high ELSE high \o low

NoDelete == [projectIds |-> <<>>, i |-> 1, success |-> <<>>, failed |-> <<>>,
             emptyProjects |-> <<>>]

(* the page's error: null, a message, or a message naming IDs *)
NoError == [text |-> Null, ids |-> <<>>]
ErrorText(message) == [text |-> message, ids |-> <<>>]

CleanerInit ==
  /\ op = "ProjectCleaner"
  /\ pc = "idle"
  /\ loc = [emptyProjects |-> <<>>, selectedProjects |-> <<>>, isLoading |-> FALSE,
            isDeleting |-> FALSE, sortField |-> "configurationCount",
            sortDirection |-> "asc", error |-> NoError, showDeleteConfirm |-> FALSE,
            deleteType |-> "selected", delete |-> NoDelete,
            fetched |-> <<>>, fetchedEmpty |-> {},
            confirmed |-> FALSE, atConfirm |-> <<>>]
  /\ outstanding = 0
  /\ log = <<>>

(* the page's requests are read off pc and the delete loop, not off log *)
(* `projects`, the local of handleFindEmptyProjects, is kept in `fetched`  *)
(* for the state in which the handler returns and is gone afterwards       *)
Returned(l) == [l EXCEPT !.fetched = <<>>]

CleanerRest == <<op, log, wizardVars, proxyVars>>

(* the dialog is modal: the page behind it takes no clicks *)
CleanerPage == op = "ProjectCleaner" /\ ~loc.showDeleteConfirm

(* handleFindEmptyProjects up to its await; the button is disabled while   *)
(* loading or deleting                                                     *)
cleaner_find ==
  /\ CleanerPage /\ ~loc.isLoading /\ ~loc.isDeleting
  /\ loc' = [Returned(loc) EXCEPT !.isLoading = TRUE, !.error = NoError]
  /\ outstanding' = outstanding + 1
  /\ UNCHANGED <<pc, CleanerRest>>

(* the projects arrive: setEmptyProjects, setSelectedProjects(new Set()) *)
cleaner_find_success ==
  /\ op = "ProjectCleaner" /\ loc.isLoading
  /\ \E projects \in FetchedProjects :
       loc' = [Returned(loc) EXCEPT !.emptyProjects = EmptyProjectsData(findEmptyProjects(projects)),
                          !.selectedProjects = <<>>,
                          !.isLoading = FALSE,
                          !.fetched = projects,
                          !.fetchedEmpty = @ \cup {projects[k].id : k \in
                              {j \in 1..Len(projects) : projects[j].configuration_count = 0}}]
  /\ outstanding' = outstanding - 1
  /\ UNCHANGED <<pc, CleanerRest>>

(* catch: setError; finally setIsLoading(false) *)
cleaner_find_catch ==
  /\ op = "ProjectCleaner" /\ loc.isLoading
  /\ \E e \in Thrown :
       loc' = [Returned(loc) EXCEPT !.error = ErrorText(ErrorMessage(e, "Failed to fetch empty projects")),
                          !.isLoading = FALSE]
  /\ outstanding' = outstanding - 1
  /\ UNCHANGED <<pc, CleanerRest>>

(* handleSelectAll / handleSelectProject from the table, which is shown    *)
(* while the list is not empty; a Set keeps insertion order                *)
cleaner_select ==
  /\ CleanerPage /\ loc.emptyProjects # <<>>
  /\ \E checked \in BOOLEAN :
       \/ loc' = [Returned(loc) EXCEPT !.selectedProjects =
                               IF checked THEN IdsOf(loc.emptyProjects) ELSE <<>>]
       \/ \E k \in 1..Len(loc.emptyProjects) :
            LET pid == loc.emptyProjects[k].id
            IN loc' = [Returned(loc) EXCEPT !.selectedProjects =
                         IF checked
                           THEN (IF InSeq(pid, @) THEN @ ELSE Append(@, pid))
                           ELSE Without(@, pid)]
  /\ UNCHANGED <<pc, outstanding, CleanerRest>>

(* handleSort *)
cleaner_sort ==
  /\ CleanerPage /\ loc.emptyProjects # <<>>
  /\ \E field \in {"configurationCount", "templateCount"} :
       LET newDirection == IF field = loc.sortField
                             THEN (IF loc.sortDirection = "asc" THEN "desc" ELSE "asc")
                             ELSE "asc"
       IN loc' = [Returned(loc) EXCEPT !.sortField = field, !.sortDirection = newDirection,
                             !.emptyProjects = SortedBy(@, field, newDirection)]
  /\ UNCHANGED <<pc, outstanding, CleanerRest>>

(* handleDeleteSelected / handleDeleteAll: the buttons are shown while the *)
(* list is not empty and disabled while deleting                           *)
cleaner_delete_click ==
  /\ CleanerPage /\ loc.emptyProjects # <<>> /\ ~loc.isDeleting
  /\ \E type \in {"selected", "all"} :
       /\ type = "selected" => loc.selectedProjects # <<>>
       /\ loc' = [Returned(loc) EXCEPT !.deleteType = type, !.showDeleteConfirm = TRUE,
                             !.confirmed = FALSE]
  /\ UNCHANGED <<pc, outstanding, CleanerRest>>

(* Mutant: cancelling also clears the selection.                           *)
onCancelDelete_clears(l) == [l EXCEPT !.showDeleteConfirm = FALSE, !.selectedProjects = <<>>]

(* onCancelDelete: () => setShowDeleteConfirm(false) *)
onCancelDelete(l) == [l EXCEPT !.showDeleteConfirm = FALSE]

cleaner_cancel ==
  /\ op = "ProjectCleaner" /\ loc.showDeleteConfirm
  /\ loc' = onCancelDelete(Returned(loc))
  /\ UNCHANGED <<pc, outstanding, CleanerRest>>

(* confirmDelete up to its await: the IDs come from the selection or the   *)
(* list of the render that showed the dialog, and deleteProjects sends the *)
(* request for the first of them                                           *)
cleaner_confirm ==
  /\ op = "ProjectCleaner" /\ loc.showDeleteConfirm
  /\ LET projectIds == IF loc.deleteType = "selected"
                         THEN loc.selectedProjects
                         ELSE IdsOf(loc.emptyProjects)
     IN /\ loc' = [Returned(loc) EXCEPT
                     !.showDeleteConfirm = FALSE, !.isDeleting = TRUE,
                     !.error = NoError,
                     !.delete = [projectIds |-> projectIds,
                                 i |-> 1, success |-> <<>>, failed |-> <<>>,
                                 emptyProjects |-> loc.emptyProjects],
                     !.confirmed = TRUE, !.atConfirm = loc.emptyProjects]
        /\ pc' = IF projectIds = <<>> THEN "loop" ELSE "await"
        /\ outstanding' = IF projectIds = <<>> THEN outstanding ELSE outstanding + 1
  /\ UNCHANGED CleanerRest

(* the answer to a deleteProject request: results.success.push(projectId)  *)
(* or the catch with results.failed.push; the loop then sends the request  *)
(* for the next ID, if there is one                                        *)
cleaner_delete_response ==
  /\ op = "ProjectCleaner" /\ pc = "await"
  /\ \E ok \in BOOLEAN :
       loc' = IF ok
                THEN [Returned(loc) EXCEPT !.delete.success =
                                    Append(@, loc.delete.projectIds[loc.delete.i]),
                                 !.delete.i = @ + 1]
                ELSE [Returned(loc) EXCEPT !.delete.failed =
                                    Append(@, loc.delete.projectIds[loc.delete.i]),
                                 !.delete.i = @ + 1]
  /\ IF loc.delete.i < Len(loc.delete.projectIds)
       THEN pc' = "await" /\ outstanding' = outstanding
       ELSE pc' = "loop" /\ outstanding' = outstanding - 1
  /\ UNCHANGED CleanerRest

(* `Failed to delete ${failed.length} project(s): ${ids.join(', ')}` *)
FailedToDelete(failed) == [text |-> "Failed to delete", ids |-> failed]

(* Mutant: the successes are removed from the list as it is now.           *)
RemainingProjects_current(l) ==
  SelectSeq(l.emptyProjects, LAMBDA p : ~InSeq(p.id, l.delete.success))

(* emptyProjects.filter(p => !successfulIds.has(p.id)), with the           *)
(* emptyProjects of the render in which the deletion was confirmed         *)
RemainingProjects(l) ==
  SelectSeq(l.delete.emptyProjects, LAMBDA p : ~InSeq(p.id, l.delete.success))

(* deleteProjects returned: the rest of confirmDelete and its finally *)
cleaner_delete_finish ==
  /\ op = "ProjectCleaner" /\ pc = "loop"
  /\ loc.delete.i > Len(loc.delete.projectIds)
  /\ loc' = [Returned(loc) EXCEPT !.emptyProjects = RemainingProjects(loc),
                        !.selectedProjects = <<>>,
                        !.error = IF Len(loc.delete.failed) > 0
                                    THEN FailedToDelete(loc.delete.failed) ELSE @,
                        !.isDeleting = FALSE,
                        !.delete = NoDelete, !.confirmed = FALSE, !.atConfirm = <<>>]
  /\ pc' = "idle"
  /\ UNCHANGED <<outstanding, CleanerRest>>

InitCleaner == CleanerInit /\ WizardIdle /\ ProxyIdle

NextCleaner ==
  \/ cleaner_find
  \/ cleaner_find_success
  \/ cleaner_find_catch
  \/ cleaner_select
  \/ cleaner_sort
  \/ cleaner_delete_click
  \/ cleaner_cancel
  \/ cleaner_confirm
  \/ cleaner_delete_response
  \/ cleaner_delete_finish

SpecCleaner == InitCleaner /\ [][NextCleaner]_vars

----------------------------------------------------------------------------
(* IpManagement (pages/utilities/IpManagement)                             *)

(* regions of the lookup buttons used here *)
Regions == {"US-Central", "EMEA"}

(* what GET /v2/ips.json?query=region:R can answer: IPs of region R with   *)
(* distinct IDs                                                            *)
FetchedIps(region) ==
  {l \in SeqsUpTo([id : Ids, nic_count : Counts, region : {region}], MaxIps) :
     DistinctIds(l)}

(* Mutant: the filter is ignored.                                          *)
filteredIPAddresses_all(l) == l.ipAddresses

(* showNonAttachedOnly ? ipAddresses.filter(ip => ip.nic_count === 0)      *)
(*                     : ipAddresses                                       *)
filteredIPAddresses(l) ==
  IF l.showNonAttachedOnly
    THEN SelectSeq(l.ipAddresses, LAMBDA ip : ip.nic_count = 0)
    ELSE l.ipAddresses

NoRelease == [ipIds |-> <<>>, i |-> 1, success |-> <<>>, failed |-> <<>>,
              ipAddresses |-> <<>>, selectedIPId |-> "", requested |-> <<>>]

IpInit ==
  /\ op = "IpManagement"
  /\ pc = "idle"
  /\ loc = [ipAddresses |-> <<>>, selectedRegion |-> "", isLoading |-> FALSE,
            isReleasing |-> FALSE, error |-> NoError, showReleaseConfirm |-> FALSE,
            releaseType |-> "single", selectedIPId |-> "",
            showNonAttachedOnly |-> FALSE, region |-> "", release |-> NoRelease,
            confirmed |-> FALSE, counted |-> <<>>, nonAttachedOnly |-> FALSE]
  /\ outstanding = 0
  /\ log = <<>>

IpPage == op = "IpManagement" /\ ~loc.showReleaseConfirm

(* handleLookupRegion(region) up to its await; the region buttons are      *)
(* disabled while loading                                                  *)
ip_lookup ==
  /\ IpPage /\ ~loc.isLoading
  /\ \E region \in Regions :
       loc' = [loc EXCEPT !.isLoading = TRUE, !.error = NoError,
                          !.selectedRegion = region, !.region = region]
  /\ outstanding' = outstanding + 1
  /\ UNCHANGED <<pc, CleanerRest>>

(* setIpAddresses(ips); finally setIsLoading(false) *)
ip_lookup_success ==
  /\ op = "IpManagement" /\ loc.isLoading
  /\ \E ips \in FetchedIps(loc.region) :
       loc' = [loc EXCEPT !.ipAddresses = ips, !.isLoading = FALSE, !.region = ""]
  /\ outstanding' = outstanding - 1
  /\ UNCHANGED <<pc, CleanerRest>>

(* catch: setError; finally setIsLoading(false) *)
ip_lookup_catch ==
  /\ op = "IpManagement" /\ loc.isLoading
  /\ \E e \in Thrown :
       loc' = [loc EXCEPT !.error = ErrorText(ErrorMessage(e, "Failed to fetch IP addresses")),
                          !.isLoading = FALSE, !.region = ""]
  /\ outstanding' = outstanding - 1
  /\ UNCHANGED <<pc, CleanerRest>>

(* the Non-Attached Only checkbox, shown while the list is not empty *)
ip_filter ==
  /\ IpPage /\ loc.ipAddresses # <<>>
  /\ loc' = [loc EXCEPT !.showNonAttachedOnly = ~@]
  /\ UNCHANGED <<pc, outstanding, CleanerRest>>

(* handleReleaseIP(ip.id) from a row of the filtered list, or              *)
(* handleReleaseAll; both are disabled while releasing                     *)
ip_release_click ==
  /\ IpPage /\ loc.ipAddresses # <<>> /\ ~loc.isReleasing
  /\ \/ \E k \in 1..Len(filteredIPAddresses(loc)) :
          loc' = [loc EXCEPT !.selectedIPId = filteredIPAddresses(loc)[k].id,
                             !.releaseType = "single", !.showReleaseConfirm = TRUE,
                             !.confirmed = FALSE]
     \/ loc' = [loc EXCEPT !.releaseType = "all", !.showReleaseConfirm = TRUE,
                           !.confirmed = FALSE]
  /\ UNCHANGED <<pc, outstanding, CleanerRest>>

(* Cancel of the dialog: onOpenChange(false) *)
ip_cancel ==
  /\ op = "IpManagement" /\ loc.showReleaseConfirm
  /\ loc' = [loc EXCEPT !.showReleaseConfirm = FALSE]
  /\ UNCHANGED <<pc, outstanding, CleanerRest>>

(* confirmRelease up to its await: one release request for the selected    *)
(* IP, or releaseIPAddresses on the filtered list, which sends the request *)
(* for its first ID                                                        *)
ip_confirm ==
  /\ op = "IpManagement" /\ loc.showReleaseConfirm
  /\ LET ipIds == IF loc.releaseType = "single"
                    THEN <<loc.selectedIPId>>
                    ELSE IdsOf(filteredIPAddresses(loc))
     IN /\ loc' = [loc EXCEPT
                     !.showReleaseConfirm = FALSE, !.isReleasing = TRUE,
                     !.error = NoError,
                     !.release = [ipIds |-> ipIds, i |-> 1, success |-> <<>>,
                                  failed |-> <<>>, ipAddresses |-> loc.ipAddresses,
                                  selectedIPId |-> loc.selectedIPId,
                                  requested |-> IF ipIds = <<>> THEN <<>> ELSE <<ipIds[1]>>],
                     !.confirmed = TRUE,
                     !.counted = IF loc.releaseType = "single"
                                   THEN <<loc.selectedIPId>>
                                   ELSE IdsOf(IF loc.showNonAttachedOnly
                                                THEN SelectSeq(loc.ipAddresses,
                                                               LAMBDA ip : ip.nic_count = 0)
                                                ELSE loc.ipAddresses),
                     !.nonAttachedOnly = loc.showNonAttachedOnly]
        /\ pc' = IF ipIds = <<>> THEN "loop" ELSE "await"
        /\ outstanding' = IF ipIds = <<>> THEN outstanding ELSE outstanding + 1
  /\ UNCHANGED CleanerRest

FailedToRelease(failed) == [text |-> "Failed to release", ids |-> failed]

(* releaseType single: the release is answered; on success the IP leaves   *)
(* the list of the render that confirmed, on failure the catch sets error  *)
ip_single_response ==
  /\ op = "IpManagement" /\ pc = "await" /\ loc.releaseType = "single"
  /\ \E ok \in BOOLEAN :
       IF ok
         THEN loc' = [loc EXCEPT !.ipAddresses =
                                    SelectSeq(loc.release.ipAddresses,
                                              LAMBDA ip : ip.id # loc.release.selectedIPId),
                                 !.isReleasing = FALSE, !.release = NoRelease,
                                 !.confirmed = FALSE, !.counted = <<>>,
                                 !.nonAttachedOnly = FALSE]
         ELSE \E e \in Thrown :
                loc' = [loc EXCEPT !.error = ErrorText(ErrorMessage(e, "Failed to release IP address(es)")),
                                   !.isReleasing = FALSE, !.release = NoRelease,
                                   !.confirmed = FALSE, !.counted = <<>>,
                                   !.nonAttachedOnly = FALSE]
  /\ outstanding' = outstanding - 1
  /\ pc' = "idle"
  /\ UNCHANGED CleanerRest

(* releaseIPAddresses: the answer for one IP, then the request for the     *)
(* next one, if there is one                                               *)
ip_release_response ==
  /\ op = "IpManagement" /\ pc = "await" /\ loc.releaseType = "all"
  /\ LET more == loc.release.i < Len(loc.release.ipIds)
         next == IF more THEN <<loc.release.ipIds[loc.release.i + 1]>> ELSE <<>>
     IN /\ \E ok \in BOOLEAN :
             loc' = IF ok
                      THEN [loc EXCEPT !.release.success =
                                          Append(@, loc.release.ipIds[loc.release.i]),
                                       !.release.i = @ + 1,
                                       !.release.requested = @ \o next]
                      ELSE [loc EXCEPT !.release.failed =
                                          Append(@, loc.release.ipIds[loc.release.i]),
                                       !.release.i = @ + 1,
                                       !.release.requested = @ \o next]
        /\ IF more THEN pc' = "await" /\ outstanding' = outstanding
                   ELSE pc' = "loop" /\ outstanding' = outstanding - 1
  /\ UNCHANGED CleanerRest

(* releaseIPAddresses returned: the rest of confirmRelease and its finally *)
ip_release_finish ==
  /\ op = "IpManagement" /\ pc = "loop"
  /\ loc' = [loc EXCEPT !.ipAddresses =
                           SelectSeq(loc.release.ipAddresses,
                                     LAMBDA ip : ~InSeq(ip.id, loc.release.success)),
                        !.error = IF Len(loc.release.failed) > 0
                                    THEN FailedToRelease(loc.release.failed) ELSE @,
                        !.isReleasing = FALSE, !.release = NoRelease,
                        !.confirmed = FALSE, !.counted = <<>>,
                        !.nonAttachedOnly = FALSE]
  /\ pc' = "idle"
  /\ UNCHANGED <<outstanding, CleanerRest>>

InitIp == IpInit /\ WizardIdle /\ ProxyIdle

NextIp ==
  \/ ip_lookup
  \/ ip_lookup_success
  \/ ip_lookup_catch
  \/ ip_filter
  \/ ip_release_click
  \/ ip_cancel
  \/ ip_confirm
  \/ ip_single_response
  \/ ip_release_response
  \/ ip_release_finish

SpecIp == InitIp /\ [][NextIp]_vars

(* the two pages with a confirmation dialog *)
InitDialogs == (CleanerInit \/ IpInit) /\ WizardIdle /\ ProxyIdle

NextDialogs == NextCleaner \/ NextIp

SpecDialogs == InitDialogs /\ [][NextDialogs]_vars

----------------------------------------------------------------------------
(* LookupUrls.handleLookup (pages/training/LookupUrls)                     *)

LookupInit ==
  /\ op = "handleLookup"
  /\ pc = "start"
  /\ loc = [configurations |-> <<>>, i |-> 0, results |-> <<>>, error |-> Null]
  /\ outstanding = 0
  /\ log = <<>>

(* the projectId check, the reset, then await getProjectConfigurations     *)
lookup_start ==
  /\ op = "handleLookup" /\ pc = "start"
  /\ IF Trim(projectId) = <<>>
       THEN /\ pc' = "done"
            /\ loc' = [loc EXCEPT !.error = "Project ID is required"]
            /\ UNCHANGED <<outstanding, log>>
       ELSE /\ pc' = "await_configs"
            /\ loc' = [loc EXCEPT !.error = Null, !.results = <<>>]
            /\ log' = Append(log, Request("getProjectConfigurations", Trim(projectId)))
            /\ outstanding' = outstanding + 1
  /\ UNCHANGED <<op, wizardVars, proxyVars>>

(* configurations arrive; an empty list sets the error and returns         *)
lookup_configs ==
  /\ op = "handleLookup" /\ pc = "await_configs"
  /\ outstanding' = outstanding - 1
  /\ log' = Append(log, Response(TRUE))
  /\ \E n \in 0..MaxConfigs :
       IF n = 0
         THEN /\ loc' = [loc EXCEPT !.error = "No configurations found in the specified project"]
              /\ pc' = "done"
         ELSE /\ loc' = [loc EXCEPT !.configurations = Configurations(n), !.i = 0]
              /\ pc' = "loop"
  /\ UNCHANGED <<op, wizardVars, proxyVars>>

(* outer catch: onComplete({ success: false, ... })                        *)
lookup_configs_catch ==
  /\ op = "handleLookup" /\ pc = "await_configs"
  /\ outstanding' = outstanding - 1
  /\ log' = Append(log, Response(FALSE))
  /\ \E e \in Thrown :
       loc' = [loc EXCEPT !.error = ErrorMessage(e, "Failed to lookup URLs")]
  /\ steps' = handleStepComplete(steps, StepIds[4], [success |-> FALSE])
  /\ pc' = "done"
  /\ UNCHANGED <<op, wizardRest, proxyVars>>

(* for (const config of configurations) { await getPublishSets(config.id)  *)
lookup_request ==
  /\ op = "handleLookup" /\ pc = "loop" /\ loc.i < Len(loc.configurations)
  /\ log' = Append(log, Request("getPublishSets", loc.configurations[loc.i + 1]))
  /\ outstanding' = outstanding + 1
  /\ pc' = "await_sets"
  /\ UNCHANGED <<op, loc, wizardVars, proxyVars>>

(* if (publishSets && publishSets.length > 0) results.push(...)            *)
lookup_success ==
  /\ op = "handleLookup" /\ pc = "await_sets"
  /\ outstanding' = outstanding - 1
  /\ log' = Append(log, Response(TRUE))
  /\ \E hasSets \in BOOLEAN :
       loc' = [loc EXCEPT !.results = IF hasSets
                                        THEN Append(@, loc.configurations[loc.i + 1])
                                        ELSE @,
                          !.i = @ + 1]
  /\ pc' = "loop"
  /\ UNCHANGED <<op, wizardVars, proxyVars>>

(* Mutant: a failed request ends the loop.                                 *)
lookup_catch_breaks ==
  /\ op = "handleLookup" /\ pc = "await_sets"
  /\ outstanding' = outstanding - 1
  /\ log' = Append(log, Response(FALSE))
  /\ loc' = [loc EXCEPT !.i = Len(loc.configurations)]
  /\ pc' = "loop"
  /\ UNCHANGED <<op, wizardVars, proxyVars>>

(* catch { addLog }: continue with the other configurations                *)
lookup_catch ==
  /\ op = "handleLookup" /\ pc = "await_sets"
  /\ outstanding' = outstanding - 1
  /\ log' = Append(log, Response(FALSE))
  /\ loc' = [loc EXCEPT !.i = @ + 1]
  /\ pc' = "loop"
  /\ UNCHANGED <<op, wizardVars, proxyVars>>

(* setUrlResults(results); onComplete({ success: true, ... }); the error   *)
(* when no sharing portal was found                                        *)
lookup_complete ==
  /\ op = "handleLookup" /\ pc = "loop" /\ loc.i >= Len(loc.configurations)
  /\ steps' = handleStepComplete(steps, StepIds[4],
                 [success |-> TRUE, totalUrls |-> Len(loc.results)])
  /\ loc' = [loc EXCEPT !.error = IF loc.results = <<>>
                                    THEN "No sharing portals found in the specified project"
                                    ELSE @]
  /\ pc' = "done"
  /\ UNCHANGED <<op, outstanding, log, wizardRest, proxyVars>>

NextLookup ==
  \/ lookup_start
  \/ lookup_configs
  \/ lookup_configs_catch
  \/ lookup_request
  \/ lookup_success
  \/ lookup_catch
  \/ lookup_complete

(* The wizard steps that work through a project's configurations: one run  *)
(* of Create Schedulers, of a Power Options button or of Lookup URLs.      *)
InitConfigurations ==
  /\ \/ SchedulersInit /\ WizardAtStep(1)
     \/ (\E o \in PowerOps : PowerInit(o)) /\ WizardAtStep(2)
     \/ LookupInit /\ WizardAtStep(3)
  /\ ProxyIdle

NextConfigurations == NextSchedulers \/ NextPower \/ NextLookup

SpecConfigurations == InitConfigurations /\ [][NextConfigurations]_vars

----------------------------------------------------------------------------
(* CostCalculator.calculateInstanceCost (pages/utilities/CostCalculator)   *)

MsPerDay == 86400000

(* billingRates, in 1/100000 $ per GB per hour *)
DefaultRamRate == 3861
DefaultStorageRate == 11

(* A form field: whether it holds text, and the number the text spells.    *)
(* Dates are day numbers; the other numbers are in tenths.                 *)
Empty == [filled |-> FALSE, value |-> 0]
Text(v) == [filled |-> TRUE, value |-> v]

RequiredFields ==
  <<"startDate", "endDate", "ramPerInstance", "storagePerInstance",
    "numberOfInstances", "runningHoursPerDay">>

(* what can be entered in each field *)
FieldTexts(field) ==
  CASE field \in {"startDate", "endDate"} -> {Text(d) : d \in 1..MaxDay}
    [] field = "ramPerInstance"           -> {Text(80)}
    [] field = "storagePerInstance"       -> {Text(1000)}
    [] field = "numberOfInstances"        -> {Text(10), Text(25)}
    [] field = "runningHoursPerDay"       -> {Text(-5), Text(0), Text(80), Text(240), Text(245)}

EmptyInstanceForm == [k \in {RequiredFields[n] : n \in 1..Len(RequiredFields)} |-> Empty]

(* new Date('yyyy-MM-dd').getTime(): midnight UTC of the day *)
DateGetTime(text) == text.value * MsPerDay

(* parseFloat of a number text, in tenths *)
ParseFloatTenths(text) == text.value

(* parseInt of a non-negative number text: the digits before the point *)
ParseIntWhole(text) == text.value \div 10

NoResult ==
  [present |-> FALSE, numberOfDays |-> 0, ramCostPerInstance |-> 0,
   storageCostPerInstance |-> 0, totalRamCost |-> 0, totalStorageCost |-> 0,
   totalCost |-> 0]

(* Mutant: the day count without the end day.                              *)
NumberOfDays_exclusive(timeDiff) == MathCeilDiv(timeDiff, MsPerDay)

(* Math.ceil(timeDiff / (1000 * 3600 * 24)) + 1 *)
NumberOfDays(timeDiff) == MathCeilDiv(timeDiff, MsPerDay) + 1

(* the missing required fields, in the order of requiredFields *)
MissingFields(form) ==
  SelectSeq(RequiredFields, LAMBDA field : ~form[field].filled)

(* calculateInstanceCost on the form and rates of the render: the error    *)
(* and the result it leaves. Costs are in 1/10000000 $.                    *)
CalculateInstanceCost(form, result) ==
  IF MissingFields(form) # <<>>
    THEN [error |-> "Please fill in all required fields", instanceResult |-> result]
  ELSE
    LET startDate    == DateGetTime(form.startDate)
        endDate      == DateGetTime(form.endDate)
        timeDiff     == endDate - startDate
        numberOfDays == NumberOfDays(timeDiff)
        ramPerVM     == ParseFloatTenths(form.ramPerInstance)
        storagePerVM == ParseFloatTenths(form.storagePerInstance)
        numberOfVMs  == ParseIntWhole(form.numberOfInstances)
        hoursPerDay  == ParseFloatTenths(form.runningHoursPerDay)
        ramHoursPerInstance     == ramPerVM * hoursPerDay * numberOfDays
        storageHoursPerInstance == storagePerVM * 240 * numberOfDays
        ramCostPerVM     == ramHoursPerInstance * DefaultRamRate
        storageCostPerVM == storageHoursPerInstance * DefaultStorageRate
        totalRamCost     == ramCostPerVM * numberOfVMs
        totalStorageCost == storageCostPerVM * numberOfVMs
    IN IF startDate > endDate
         THEN [error |-> "End date must be after start date", instanceResult |-> result]
       ELSE IF hoursPerDay < 0 \/ hoursPerDay > 240
         THEN [error |-> "Running hours per day must be between 0 and 24",
               instanceResult |-> result]
       ELSE [error |-> Null,
             instanceResult |->
               [present |-> TRUE, numberOfDays |-> numberOfDays,
                ramCostPerInstance |-> ramCostPerVM,
                storageCostPerInstance |-> storageCostPerVM,
                totalRamCost |-> totalRamCost,
                totalStorageCost |-> totalStorageCost,
                totalCost |-> totalRamCost + totalStorageCost]]

CostInit ==
  /\ op = "calculateInstanceCost"
  /\ pc = "form"
  /\ loc = [instanceFormData |-> EmptyInstanceForm, instanceResult |-> NoResult,
            error |-> Null]
  /\ outstanding = 0
  /\ log = <<>>

(* onChange of one of the six inputs; clearing an input leaves '' *)
cost_onChange ==
  /\ op = "calculateInstanceCost"
  /\ \E n \in 1..Len(RequiredFields) :
       \E text \in FieldTexts(RequiredFields[n]) \cup {Empty} :
         loc' = [loc EXCEPT !.instanceFormData[RequiredFields[n]] = text]
  /\ UNCHANGED <<op, pc, outstanding, log, wizardVars, proxyVars>>

(* the CALCULATE COST button *)
cost_calculate ==
  /\ op = "calculateInstanceCost"
  /\ LET out == CalculateInstanceCost(loc.instanceFormData, loc.instanceResult)
     IN loc' = [loc EXCEPT !.error = out.error, !.instanceResult = out.instanceResult]
  /\ UNCHANGED <<op, pc, outstanding, log, wizardVars, proxyVars>>

NextCost == cost_onChange \/ cost_calculate

InitCost == CostInit /\ WizardIdle /\ ProxyIdle

SpecCost == InitCost /\ [][NextCost]_vars

----------------------------------------------------------------------------
(* Trace helpers used by the properties *)

IsRequest(e)  == e.type = "request"
IsResponse(e) == e.type = "response"
IsPause(e)    == e.type = "pause"

Requests(l)  == SelectSeq(l, IsRequest)
Responses(l) == SelectSeq(l, IsResponse)

----------------------------------------------------------------------------
(* Properties of deleteProjects / releaseIPAddresses *)

RECURSIVE IdsWhere(_, _, _)
(* the input IDs, in input order, whose request had outcome ok             *)
IdsWhere(ids, resps, ok) ==
  IF ids = <<>> \/ resps = <<>> THEN <<>>
  ELSE (IF resps[1].ok = ok THEN <<ids[1]>> ELSE <<>>)
       \o IdsWhere(Tail(ids), Tail(resps), ok)

FailedIds(failed) == [k \in 1..Len(failed) |-> failed[k].id]

BatchReturned == op \in BatchOps /\ pc = "returned"

(* C1: deleteProjects and releaseIPAddresses never throw; when they return, *)
(* every input ID (each occurrence) is in exactly one of success / failed:  *)
(* success holds, in input order, the IDs whose request succeeded, failed   *)
(* holds, in input order and each with an error message, the IDs whose      *)
(* request threw, and the two lengths add up to the input length.           *)
C1_BatchPartition ==
  op \in BatchOps =>
    /\ pc \in {"loop", "await", "returned"}
    /\ pc = "returned" =>
         /\ Len(Responses(log)) = Len(loc.ids)
         /\ loc.results.success = IdsWhere(loc.ids, Responses(log), TRUE)
         /\ FailedIds(loc.results.failed) = IdsWhere(loc.ids, Responses(log), FALSE)
         /\ \A k \in 1..Len(loc.results.failed) :
              loc.results.failed[k].error \notin {Null, ""}
         /\ Len(loc.results.success) + Len(loc.results.failed) = Len(loc.ids)

C1_Witness ==
  /\ BatchReturned
  /\ Len(loc.ids) = MaxIds
  /\ loc.results.success # <<>>
  /\ loc.results.failed # <<>>

(* C2: exactly one request per input ID, in input order: the requests sent  *)
(* so far are the requests for a prefix of the input, and at return there   *)
(* is one for every input ID, whatever the outcomes were.                   *)
C2_OneRequestPerId ==
  op \in BatchOps =>
    /\ Len(Requests(log)) <= Len(loc.ids)
    /\ \A k \in 1..Len(Requests(log)) :
         Requests(log)[k] = Request(BatchApi(op), loc.ids[k])
    /\ pc = "returned" => Len(Requests(log)) = Len(loc.ids)

C2_Witness ==
  /\ BatchReturned
  /\ Len(loc.ids) = MaxIds
  /\ Responses(log)[1].ok = FALSE
  /\ Responses(log)[2].ok = TRUE

----------------------------------------------------------------------------
(* Properties of the copy workflow and of step completion *)

IsCopyRequest(e) == e.type = "request" /\ e.api = "copyEnvironment"

(* C4: in handleCopyEnvironment any two copy-creation requests have a       *)
(* 10-second pause between them, whether the earlier one succeeded or      *)
(* failed, and no pause follows the request for the last copy.             *)
C4_PauseBetweenCopies ==
  op = "copy" =>
    /\ \A k, m \in 1..Len(log) :
         (k < m /\ IsCopyRequest(log[k]) /\ IsCopyRequest(log[m]))
           => \E j \in (k + 1)..(m - 1) : log[j] = Pause(CopyPauseMs)
    /\ \A k, j \in 1..Len(log) :
         (k < j /\ IsCopyRequest(log[k]) /\ IsPause(log[j])
            /\ Len(SelectSeq(SubSeq(log, 1, k), IsCopyRequest)) = loc.desiredCopies)
           => FALSE

(* C7: a step is marked completed only if its operation was successful: a   *)
(* copy run that created no copy, or a disable run that disabled            *)
(* auto-shutdown for no environment, neither marks its step completed nor   *)
(* enables Next.                                                            *)
C7_CompletedOnlyIfSuccessful ==
  /\ (op = "copy" /\ pc = "done" /\ loc.copyIds = <<>>)
       => (~steps[1].completed /\ ~NextEnabled)
  /\ (op = "disableAutoshutdown" /\ pc \in {"done", "cs_await_configs"}
        /\ loc.successCount = 0)
       => (~steps[3].completed /\ ~NextEnabled)

----------------------------------------------------------------------------
(* Properties of the Usage analysis *)

IsLabelRequest(e) ==
  e.type = "request" /\ e.api \in {"getConfigurationLabels", "getTemplateLabels"}

(* number of label requests among the first p entries of the trace *)
LabelRequestsBefore(p) == Len(SelectSeq(SubSeq(log, 1, p), IsLabelRequest))

PausePositions == {p \in 1..Len(log) : IsPause(log[p])}

(* the least k with k * batchSize >= n *)
BatchesFor(n, batchSize) ==
  CHOOSE k \in 0..n : k * batchSize >= n /\ \A h \in 0..(k - 1) : h * batchSize < n

(* C5: the n IDs are processed in ceil(n / batchSize) consecutive batches;   *)
(* every pause lasts delayMs and stands after a full batch that is not the  *)
(* last one, no two pauses stand at the same batch boundary, failed label   *)
(* requests change nothing, and a finished run has made                     *)
(* max(0, ceil(n / batchSize) - 1) pauses and one label request per ID.     *)
C5_PausesBetweenBatches ==
  (op \in UsageOps /\ loc.fetched) =>
    LET n == Len(loc.ids)
        batches == BatchesFor(n, loc.batchSize)
    IN /\ loc.totalBatches = batches
       /\ \A p \in PausePositions :
            /\ log[p].ms = loc.delayMs
            /\ LabelRequestsBefore(p) > 0
            /\ LabelRequestsBefore(p) % loc.batchSize = 0
            /\ LabelRequestsBefore(p) < n
       /\ \A p, q \in PausePositions :
            p # q => LabelRequestsBefore(p) # LabelRequestsBefore(q)
       /\ pc = "done" =>
            /\ Cardinality(PausePositions) = (IF batches = 0 THEN 0 ELSE batches - 1)
            /\ SelectSeq(log, IsLabelRequest)
                 = [k \in 1..n |-> Request(LabelApi(op), loc.ids[k])]

C5_Witness ==
  /\ op \in UsageOps /\ pc = "done" /\ loc.fetched
  /\ Len(loc.ids) = MaxFetched
  /\ loc.batchSize = 2
  /\ Cardinality(PausePositions) = 2
  /\ \E p \in PausePositions : log[p - 1] = Response(FALSE)

----------------------------------------------------------------------------
(* Properties of the operations' network calls *)

(* C3 as stated: within one operation at most one request is outstanding.  *)
C3_AtMostOneOutstanding ==
  op \in Operations => outstanding <= 1

(* C3 amended: at most one request is outstanding, except that billing      *)
(* report generation sends its two report-creation requests together, so    *)
(* two are outstanding while it waits for them and at no other time; the    *)
(* counter matches the trace.                                               *)
C3_SequentialExceptReportCreation ==
  op \in Operations =>
    /\ outstanding = Len(Requests(log)) - Len(Responses(log))
    /\ outstanding <= 2
    /\ outstanding = 2 =>
         /\ op = "handleGenerateReport"
         /\ pc = "await_create"
         /\ log = <<Request("createX86Report", "dates"),
                    Request("createStorageReport", "dates")>>

C3_Witness ==
  /\ op = "handleGenerateReport"
  /\ outstanding = 1
  /\ SubSeq(log, 1, 2) = <<Request("createX86Report", "dates"),
                           Request("createStorageReport", "dates")>>
  /\ pc = "await_storage"
  /\ loc.attempts = 1

----------------------------------------------------------------------------
(* Properties of the training wizard *)

LinearWizard ==
  mounted =>
    /\ 0 <= currentStep /\ currentStep <= Len(steps) - 1
    /\ \A j \in 1..currentStep : steps[j].completed

CompletedStays ==
  \A k \in 1..Len(steps) : steps[k].completed => steps'[k].completed

(* C6: once the steps are initialised the current step is a valid index,    *)
(* every step before the current one is completed, and a completed step     *)
(* never becomes uncompleted, whatever the order of Next, Previous, card    *)
(* clicks and completion callbacks (late ones included).                    *)
C6_LinearWizard == [](LinearWizard) /\ [][CompletedStays]_vars

(* a callback completed the second step after the user went back to the    *)
(* first                                                                    *)
C6_Witness ==
  /\ mounted /\ currentStep = 0
  /\ steps[1].completed /\ steps[2].completed
  /\ RunCount(inFlight) = 0

(* C8: projectValid is true only if a getProjectConfigurations request for  *)
(* the current project ID succeeded since the ID was last entered or        *)
(* changed.                                                                 *)
C8_ValidOnlyIfVerified ==
  (mounted /\ projectValid) => (verifiedId # NoItem /\ verifiedId = Trim(projectId))

----------------------------------------------------------------------------
(* Properties of the development proxy *)

RECURSIVE Base64Decode(_)
(* the bytes a base64 text (sextets, Pad for '=') stands for *)
Base64Decode(t) ==
  IF Len(t) < 4 THEN <<>>
  ELSE (IF t[3] = Pad THEN <<t[1] * 4 + t[2] \div 16>>
        ELSE IF t[4] = Pad
          THEN <<t[1] * 4 + t[2] \div 16, (t[2] % 16) * 16 + t[3] \div 4>>
        ELSE <<t[1] * 4 + t[2] \div 16, (t[2] % 16) * 16 + t[3] \div 4,
               (t[3] % 4) * 64 + t[4]>>)
       \o Base64Decode(SubSeq(t, 5, Len(t)))

(* the request carries Authorization: Basic base64(user:token) *)
CarriesBasicAuth(f) ==
  /\ f.headers.Authorization.present
  /\ f.headers.Authorization.scheme = "Basic"
  /\ Base64Decode(f.headers.Authorization.credentials)
       = env.SKYTAP_USER.value \o <<Colon>> \o env.SKYTAP_TOKEN.value

(* C9 as stated: every forwarded request carries the Basic header built     *)
(* from SKYTAP_USER and SKYTAP_TOKEN, whatever the environment holds.       *)
C9_AlwaysBasicAuth ==
  \A k \in 1..Len(forwarded) : CarriesBasicAuth(forwarded[k])

(* C9 amended: a forwarded request carries the Basic header built from      *)
(* SKYTAP_USER and SKYTAP_TOKEN if both are set and non-empty; otherwise it *)
(* is forwarded with no Authorization header.  The /api prefix is removed   *)
(* either way.                                                              *)
C9_BasicAuthIffCredentials ==
  \A k \in 1..Len(forwarded) :
    /\ IF Truthy(env.SKYTAP_USER) /\ Truthy(env.SKYTAP_TOKEN)
         THEN CarriesBasicAuth(forwarded[k])
         ELSE ~forwarded[k].headers.Authorization.present
    /\ <<"api">> \o forwarded[k].path \in ApiPaths

C9_Witness ==
  /\ Len(forwarded) = MaxForwarded
  /\ Len(env.SKYTAP_USER.value) = 2
  /\ Len(env.SKYTAP_TOKEN.value) = 2
  /\ forwarded[1].headers.Authorization.present

----------------------------------------------------------------------------
(* Properties of getAllUsers *)

(* the least k with k * d >= n, for n >= 0 and d >= 1 *)
LeastMultiple(n, d) == CHOOSE k \in 0..n : k * d >= n /\ \A h \in 0..(k - 1) : h * d < n

UserRequests == Requests(log)

(* C10: with count >= 1 and a server of N users, getAllUsers returns the     *)
(* first min(count, N) users in server order (no duplicate, no gap, never   *)
(* more than count); no request asks for more than 100 users; at most       *)
(* ceil(count / min(count, 100)) requests are made.                         *)
C10_FirstUsers ==
  (op = "getAllUsers" /\ loc.count >= 1) =>
    /\ \A k \in 1..Len(UserRequests) : UserRequests[k].arg.count <= 100
    /\ Len(UserRequests) <= LeastMultiple(loc.count, MathMin(loc.count, 100))
    /\ pc = "returned" =>
         /\ loc.returned = [k \in 1..MathMin(loc.count, loc.serverUsers) |-> k]
         /\ Len(loc.returned) <= loc.count

C10_Witness ==
  /\ op = "getAllUsers" /\ pc = "returned"
  /\ loc.count = 150
  /\ loc.serverUsers = 205
  /\ Len(UserRequests) = 2
  /\ Len(loc.allUsers) = 200

----------------------------------------------------------------------------
(* Properties of the Running Now dashboard *)

(* C11: the period of the auto-refresh timer is always between 10 and 300   *)
(* seconds, whatever is typed into the Refresh Interval field.              *)
C11_RefreshIntervalInRange ==
  (op = "RunningNow" /\ loc.timerMs # 0) =>
    (10 * 1000 <= loc.timerMs /\ loc.timerMs <= 300 * 1000)

----------------------------------------------------------------------------
(* Properties of scheduler creation *)

IsSchedulerRequest(e) == IsRequest(e) /\ e.api = "createScheduler"

SchedulerRequests == SelectSeq(log, IsSchedulerRequest)

----------------------------------------------------------------------------
(* Properties of the Project Cleaner *)

(* a step in which a find delivers its projects *)
FindDelivered ==
  /\ op = "ProjectCleaner"
  /\ loc.isLoading /\ ~loc'.isLoading /\ loc'.error = loc.error

RECURSIVE ZeroConfigurationIds(_)
ZeroConfigurationIds(projects) ==
  IF projects = <<>> THEN <<>>
  ELSE (IF Head(projects).configuration_count = 0 THEN <<Head(projects).id>> ELSE <<>>)
       \o ZeroConfigurationIds(Tail(projects))

(* C13: every project for which a delete request is issued was returned by  *)
(* a find with configuration_count 0, whatever finds, selections, sorts and *)
(* deletions came before; a find lists exactly the fetched projects whose   *)
(* configuration_count is 0, whatever their template_count.                 *)
C13_OnlyEmptyProjectsDeleted ==
  /\ [](op = "ProjectCleaner" =>
          /\ pc = "await" => loc.delete.projectIds[loc.delete.i] \in loc.fetchedEmpty
          /\ \A k \in 1..Len(loc.emptyProjects) :
               loc.emptyProjects[k].id \in loc.fetchedEmpty)
  /\ [][FindDelivered =>
          /\ IdsOf(loc'.emptyProjects) = ZeroConfigurationIds(loc'.fetched)
          /\ \A k \in 1..Len(loc'.emptyProjects) :
               \E j \in 1..Len(loc'.fetched) :
                 /\ loc'.fetched[j].id = loc'.emptyProjects[k].id
                 /\ loc'.fetched[j].template_count = loc'.emptyProjects[k].templateCount]_vars

(* a delete is requested while a find is still loading, for a project with  *)
(* templates                                                                *)
C13_Witness ==
  /\ op = "ProjectCleaner" /\ pc = "await" /\ loc.isLoading
  /\ loc.delete.i = 2
  /\ \E k \in 1..Len(loc.delete.emptyProjects) :
       /\ loc.delete.emptyProjects[k].id = loc.delete.projectIds[2]
       /\ loc.delete.emptyProjects[k].templateCount = 1


(* a step in which confirmDelete finishes *)
DeleteFinished == op = "ProjectCleaner" /\ loc.isDeleting /\ ~loc'.isDeleting

(* C16: when confirmDelete finishes, the list is the list as it was when    *)
(* the deletion was confirmed minus exactly the successfully deleted        *)
(* projects, in the same order; the selection is empty; isDeleting is       *)
(* false; the error naming the failed IDs is set iff a deletion failed.     *)
C16_AfterConfirmDelete ==
  [][DeleteFinished =>
       /\ loc'.emptyProjects =
            SelectSeq(loc.atConfirm, LAMBDA p : ~InSeq(p.id, loc.delete.success))
       /\ \A k \in 1..Len(loc.atConfirm) :
            InSeq(loc.atConfirm[k].id, loc.delete.failed)
              => InSeq(loc.atConfirm[k], loc'.emptyProjects)
       /\ loc'.selectedProjects = <<>>
       /\ ~loc'.isDeleting
       /\ (loc'.error = FailedToDelete(loc.delete.failed)) <=> (Len(loc.delete.failed) > 0)]_vars

(* a deletion of two projects has finished with one success and one failure *)
C16_Witness ==
  /\ op = "ProjectCleaner" /\ pc = "idle" /\ ~loc.isDeleting
  /\ Len(loc.emptyProjects) = 1
  /\ loc.error = FailedToDelete(<<loc.emptyProjects[1].id>>)
  /\ loc.selectedProjects = <<>>
  /\ loc.fetchedEmpty = Ids

----------------------------------------------------------------------------
(* Properties of the confirmation dialogs *)

(* a step that sends a project DELETE request *)
DeleteIssued ==
  /\ op = "ProjectCleaner" /\ pc' = "await"
  /\ pc # "await" \/ loc'.delete.i # loc.delete.i

(* a step that sends an IP release request *)
ReleaseIssued ==
  /\ op = "IpManagement" /\ pc' = "await"
  /\ pc # "await" \/ loc'.release.i # loc.release.i

(* a step that closes a dialog without confirming *)
DeleteCancelled ==
  op = "ProjectCleaner" /\ loc.showDeleteConfirm /\ ~loc'.showDeleteConfirm /\ ~loc'.isDeleting

ReleaseCancelled ==
  op = "IpManagement" /\ loc.showReleaseConfirm /\ ~loc'.showReleaseConfirm /\ ~loc'.isReleasing

(* C14: a project DELETE or an IP release request is only sent by the       *)
(* confirm action of the dialog or in the run that this confirm started,    *)
(* with no click on a delete/release button since; the dialog only opens    *)
(* by such a click; cancelling sends nothing and leaves the list and the    *)
(* selection as they were.                                                  *)
C14_RequestsOnlyAfterConfirm ==
  /\ [](op = "ProjectCleaner" => (pc = "await" => loc.confirmed /\ ~loc.showDeleteConfirm))
  /\ [](op = "IpManagement" => (pc = "await" => loc.confirmed /\ ~loc.showReleaseConfirm))
  /\ [][DeleteIssued => (loc.showDeleteConfirm \/ (pc = "await" /\ loc.confirmed))]_vars
  /\ [][ReleaseIssued => (loc.showReleaseConfirm \/ (pc = "await" /\ loc.confirmed))]_vars
  /\ [][DeleteCancelled =>
          /\ loc'.emptyProjects = loc.emptyProjects
          /\ loc'.selectedProjects = loc.selectedProjects
          /\ pc' = pc /\ outstanding' = outstanding]_vars
  /\ [][ReleaseCancelled =>
          /\ loc'.ipAddresses = loc.ipAddresses
          /\ loc'.selectedIPId = loc.selectedIPId
          /\ pc' = pc /\ outstanding' = outstanding]_vars

(* a dialog was cancelled with a selection in place, a later one confirmed  *)
C14_Witness ==
  /\ op = "ProjectCleaner" /\ pc = "await" /\ loc.confirmed
  /\ loc.deleteType = "selected"
  /\ Len(loc.selectedProjects) = 2
  /\ loc.delete.i = 2

----------------------------------------------------------------------------
(* Properties of the IP Address Management page *)

(* C15: a confirmed Release All sends release requests for exactly the IPs  *)
(* counted in the dialog, the filtered list, in its order; with Non-Attached*)
(* Only checked none of them has a nic_count greater than 0.                *)
C15_ReleaseAllFiltered ==
  (op = "IpManagement" /\ loc.releaseType = "all" /\ pc \in {"await", "loop"}) =>
    /\ Len(loc.release.requested) <= Len(loc.counted)
    /\ loc.release.requested = SubSeq(loc.counted, 1, Len(loc.release.requested))
    /\ pc = "loop" => loc.release.requested = loc.counted
    /\ loc.nonAttachedOnly =>
         \A k \in 1..Len(loc.release.requested) :
           \A j \in 1..Len(loc.release.ipAddresses) :
             loc.release.ipAddresses[j].id = loc.release.requested[k]
               => loc.release.ipAddresses[j].nic_count = 0

C15_Witness ==
  /\ op = "IpManagement" /\ loc.releaseType = "all" /\ pc = "loop"
  /\ loc.nonAttachedOnly
  /\ Len(loc.release.ipAddresses) = 2
  /\ Len(loc.release.requested) = 1
  /\ \E j \in 1..2 : loc.release.ipAddresses[j].nic_count = 1

(* C17: every IP address in the displayed list was returned by a lookup     *)
(* for the region held in selectedRegion.                                   *)
C17_ListOfSelectedRegion ==
  op = "IpManagement" =>
    \A k \in 1..Len(loc.ipAddresses) : loc.ipAddresses[k].region = loc.selectedRegion

----------------------------------------------------------------------------
(* Properties of the copy workflow *)

ApiIndexes(api) == {k \in 1..Len(log) : IsRequest(log[k]) /\ log[k].api = api}

ApiRequests(api) == SelectSeq(log, LAMBDA e : IsRequest(e) /\ e.api = api)

(* the number of copy requests answered with success *)
CopiesCreated ==
  Cardinality({k \in ApiIndexes("copyEnvironment") :
                 k < Len(log) /\ log[k + 1] = Response(TRUE)})

(* the ID the k-th created copy was given *)
CreatedId(k) == 100 + k

TwoDigits(k) == <<k \div 10, k % 10>>

ProgressGrows ==
  op = "copy" =>
    loc.progress.num * loc'.progress.den <= loc'.progress.num * loc.progress.den

(* C18: a run sends exactly desiredCopies copy requests, then one rename    *)
(* and then one add-to-project request for each created copy and no other  *)
(* ID; copies come before renames, renames before additions; the k-th       *)
(* created copy is renamed '<prefix> - NN' with NN = k in two digits;       *)
(* progress never decreases, never exceeds 100 and is 100 at the end.       *)
C18_CopyWorkflow ==
  /\ [](op = "copy" =>
          /\ \A c \in ApiIndexes("copyEnvironment"), n \in ApiIndexes("updateEnvironmentName") :
               c < n
          /\ \A n \in ApiIndexes("updateEnvironmentName"), a \in ApiIndexes("addEnvironmentToProject") :
               n < a
          /\ \A c \in ApiIndexes("copyEnvironment"), a \in ApiIndexes("addEnvironmentToProject") :
               c < a
          /\ Len(ApiRequests("copyEnvironment")) <= loc.desiredCopies
          /\ Len(ApiRequests("updateEnvironmentName")) <= CopiesCreated
          /\ Len(ApiRequests("addEnvironmentToProject")) <= CopiesCreated
          /\ \A k \in 1..Len(ApiRequests("updateEnvironmentName")) :
               ApiRequests("updateEnvironmentName")[k].arg
                 = <<CreatedId(k), <<"prefix", " - ">> \o TwoDigits(k)>>
          /\ \A k \in 1..Len(ApiRequests("addEnvironmentToProject")) :
               ApiRequests("addEnvironmentToProject")[k].arg = CreatedId(k)
          /\ loc.progress.num <= 100 * loc.progress.den
          /\ (pc = "done" /\ loc.formOk) =>
               /\ Len(ApiRequests("copyEnvironment")) = loc.desiredCopies
               /\ Len(ApiRequests("updateEnvironmentName")) = CopiesCreated
               /\ Len(ApiRequests("addEnvironmentToProject")) = CopiesCreated
               /\ loc.progress.num = 100 * loc.progress.den)
  /\ [][ProgressGrows]_vars

(* a run of three copies ended: one copy failed, one rename failed *)
C18_Witness ==
  /\ op = "copy" /\ pc = "done" /\ loc.formOk
  /\ loc.desiredCopies = 3
  /\ CopiesCreated = 2
  /\ Len(loc.copyResults) = 1
  /\ Len(ApiRequests("addEnvironmentToProject")) = 2

----------------------------------------------------------------------------
(* Properties of the loops over a project's configurations *)

(* the loops: the handlers that run them, the request they send for each   *)
(* configuration and their two positions                                   *)
ConfigurationLoops ==
  {[ops |-> {"handleCreateSchedulers"}, api |-> "createScheduler",
    at |-> "loop", await |-> "await_scheduler"],
   [ops |-> {"disableAutoshutdown"}, api |-> "disableConfigurationAutoshutdown",
    at |-> "da_loop", await |-> "da_await"],
   [ops |-> PowerOps, api |-> "getConfigurationStatus",
    at |-> "cs_loop", await |-> "cs_await"],
   [ops |-> {"handleLookup"}, api |-> "getPublishSets",
    at |-> "loop", await |-> "await_sets"]}

ConfigurationOf(e) ==
  IF e.api = "createScheduler" THEN e.arg.configuration_id ELSE e.arg

(* the configurations the requests of one kind were sent for, in order *)
RequestedConfigurations(api) ==
  [k \in 1..Len(ApiRequests(api)) |-> ConfigurationOf(ApiRequests(api)[k])]

(* the position in the log of the k-th request of one kind *)
NthIndex(api, k) ==
  CHOOSE j \in ApiIndexes(api) : Cardinality({m \in ApiIndexes(api) : m <= j}) = k

InLoop(l) == op \in l.ops /\ pc \in {l.at, l.await}

LoopEnds(l) == InLoop(l) /\ pc' \notin {l.at, l.await}

(* one status entry per configuration, 'Unknown' where the request failed *)
StatusEntries(results, configurations) ==
  /\ Len(results) = Len(configurations)
  /\ \A k \in 1..Len(configurations) :
       /\ results[k].id = configurations[k]
       /\ log[NthIndex("getConfigurationStatus", k) + 1] = Response(FALSE)
            => results[k].status = "Unknown"
       /\ log[NthIndex("getConfigurationStatus", k) + 1] = Response(TRUE)
            => results[k].status # "Unknown"

(* C19: each loop sends exactly one request per returned configuration, in *)
(* the returned order, whether or not earlier requests failed, and         *)
(* handleCheckStatus ends with one status entry per configuration.         *)
C19_OneRequestPerConfiguration ==
  /\ [](\A l \in ConfigurationLoops :
          InLoop(l) =>
            /\ Len(RequestedConfigurations(l.api)) <= Len(loc.configurations)
            /\ RequestedConfigurations(l.api)
                 = SubSeq(loc.configurations, 1, Len(RequestedConfigurations(l.api))))
  /\ [][\A l \in ConfigurationLoops :
          /\ RequestedConfigurations(l.api)' # RequestedConfigurations(l.api)
               => op \in l.ops /\ pc = l.at
          /\ LoopEnds(l) => RequestedConfigurations(l.api) = loc.configurations
          /\ (LoopEnds(l) /\ l.api = "getConfigurationStatus")
               => StatusEntries(loc.results, loc.configurations)]_vars

(* a disable run ended: the first disable request and the first status     *)
(* request failed, the second of each was still sent                       *)
C19_Witness ==
  /\ op = "disableAutoshutdown" /\ pc = "done"
  /\ RequestedConfigurations("disableConfigurationAutoshutdown") = <<1, 2>>
  /\ log[NthIndex("disableConfigurationAutoshutdown", 1) + 1] = Response(FALSE)
  /\ RequestedConfigurations("getConfigurationStatus") = <<1, 2>>
  /\ log[NthIndex("getConfigurationStatus", 1) + 1] = Response(FALSE)
  /\ Len(loc.results) = 2
  /\ loc.results[1].status = "Unknown"
  /\ loc.results[2].status = "running"

----------------------------------------------------------------------------
(* Properties of the instance cost calculator *)

(* the button was pressed: the form is as it was, something else changed *)
CostCalculated ==
  /\ op = "calculateInstanceCost"
  /\ loc'.instanceFormData = loc.instanceFormData
  /\ loc' # loc

CostRejected(form) ==
  \/ \E field \in DOMAIN form : ~form[field].filled
  \/ form.startDate.value > form.endDate.value
  \/ form.runningHoursPerDay.value < 0
  \/ form.runningHoursPerDay.value > 240

(* C20: a range start <= end counts (end - start) + 1 days; a start after  *)
(* the end, a missing field or running hours outside 0..24 sets an error   *)
(* and keeps the previous result; otherwise totalCost = totalRamCost +     *)
(* totalStorageCost, totalRamCost = ram * hoursPerDay * days * ramRate *   *)
(* instances, totalStorageCost = storage * 24 * days * storageRate *       *)
(* instances, instances being the whole number of environments entered.    *)
C20_InstanceCost ==
  [][CostCalculated =>
       LET form == loc.instanceFormData
           r    == loc'.instanceResult
           days == (form.endDate.value - form.startDate.value) + 1
           instances == form.numberOfInstances.value \div 10
       IN IF CostRejected(form)
            THEN loc'.error # Null /\ r = loc.instanceResult
            ELSE /\ loc'.error = Null
                 /\ r.present
                 /\ r.numberOfDays = days
                 /\ r.totalRamCost = form.ramPerInstance.value * form.runningHoursPerDay.value
                                       * days * DefaultRamRate * instances
                 /\ r.totalStorageCost = form.storagePerInstance.value * 240
                                           * days * DefaultStorageRate * instances
                 /\ r.totalCost = r.totalRamCost + r.totalStorageCost]_vars

(* a same-day range was calculated as one day, then a range whose start is *)
(* after its end was rejected and the result stayed                        *)
C20_Witness ==
  /\ op = "calculateInstanceCost"
  /\ loc.instanceResult.present
  /\ loc.instanceResult.numberOfDays = 1
  /\ loc.instanceResult.totalCost > 0
  /\ loc.error = "End date must be after start date"
  /\ loc.instanceFormData.startDate.value > loc.instanceFormData.endDate.value

====
